---------------------------- MODULE Spec2Model ----------------------------
(***************************************************************************)
(* Conversation/memory consistency layer (ConversationManager over a       *)
(* namespaced store) and the MasterProcessor delegation pipeline.          *)
(*                                                                         *)
(* Every asynchronous operation is a small process: one action per         *)
(* suspension point (an awaited store or inference call), with the         *)
(* synchronous code between two awaits folded into the action that         *)
(* precedes it.  The store adapter (ChromaVectorDB), the Conversation      *)
(* entity and the processor registry are not part of the sources at hand   *)
(* and are modelled from the specification's interface description.        *)
(***************************************************************************)
EXTENDS Integers, Sequences, FiniteSets, TLC

(***************************************************************************)
(* Bounds of the model.                                                    *)
(***************************************************************************)
MaxTicks == 1      \* how often the wall clock advances
MaxMem == 2        \* how many Memory objects are ever created
MaxChain == 4      \* how long a delegation chain is followed

(***************************************************************************)
(* Values.  JavaScript values that may be undefined, or that travel        *)
(* through the store's open metadata mapping, are tagged records.          *)
(***************************************************************************)
Undef == [t |-> "undefined"]
Str(s) == [t |-> "string", v |-> s]
List(s) == [t |-> "list", v |-> s]
MemId(n) == [t |-> "id", n |-> n]
InvalidDate == -1

\* JavaScript truthiness of a tagged value.
Truthy(x) == ~(x.t = "undefined" \/ (x.t = "string" /\ x.v = ""))

\* a || b
OrElse(a, b) == IF Truthy(a) THEN a ELSE b

\* Date.prototype.toISOString: "YYYY-MM-DDTHH:mm:ss.sssZ", seconds and
\* milliseconds written as separate fields of the text.
ToISOString(d) == [t |-> "iso", sec |-> d \div 1000, ms |-> d % 1000]

\* new Date(x): parses an ISO text, copies a Date, and yields an Invalid
\* Date for anything else (undefined, arbitrary text).
NewDate(x) ==
    CASE x.t = "iso" -> x.sec * 1000 + x.ms
      [] x.t = "date" -> x.v
      [] OTHER -> InvalidDate

\* md?.k on an open mapping.
Get(md, k) == IF k \in DOMAIN md THEN md[k] ELSE Undef

\* { ...a, ...b }: keys of b win.
Spread(a, b) ==
    [k \in DOMAIN a \cup DOMAIN b |-> IF k \in DOMAIN b THEN b[k] ELSE a[k]]

(***************************************************************************)
(* Identity scheme.                                                        *)
(***************************************************************************)
Platforms == {"consciousness", "discord"}
LocalIds == {"main", "alice", ""}

\* Conversation.createDeterministicId(platform, platformId): a pure,
\* collision-free function of the pair; the pair itself stands for it.
createDeterministicId(platform, platformId) == <<platform, platformId>>

ConvIds == {createDeterministicId(p, x) : p \in Platforms, x \in LocalIds}
NoId == <<"", "">>

(***************************************************************************)
(* Entities.                                                               *)
(***************************************************************************)
Absent == [present |-> FALSE]

\* new Conversation(platformId, platform, metadata) at time now.
NewConversation(platformId, platform, md, now) ==
    [present |-> TRUE,
     id |-> createDeterministicId(platform, platformId),
     platformId |-> platformId,
     platform |-> platform,
     name |-> Get(md, "name"),
     description |-> Get(md, "description"),
     participants |-> Get(md, "participants"),
     createdAt |-> IF "createdAt" \in DOMAIN md THEN md["createdAt"] ELSE now,
     lastActive |-> IF "lastActive" \in DOMAIN md THEN md["lastActive"] ELSE now,
     memories |-> <<>>]

\* Conversation.getMemories(limit): the last limit memories of the
\* in-memory log, in log order.
getMemories(conv, limit) ==
    SubSeq(conv.memories,
           IF Len(conv.memories) > limit THEN Len(conv.memories) - limit + 1 ELSE 1,
           Len(conv.memories))

\* Conversation.loadMemories: replaces the in-memory log.
loadMemories(conv, ms) == [conv EXCEPT !.memories = ms]

\* The Memory that Conversation.addMemory creates.
NewMemory(conv, content, md, id, now) ==
    [id |-> id, conversationId |-> conv.id, content |-> content,
     timestamp |-> now, metadata |-> md]

\* Conversation.addMemory: appends the new Memory to the in-memory log.
ConvAddMemory(conv, m, now) ==
    [conv EXCEPT !.memories = Append(@, m), !.lastActive = now]

(***************************************************************************)
(* Inputs.                                                                 *)
(***************************************************************************)
Contents == {"hello", "bye"}
ContentIds == {"tweet1"}

\* Caller-supplied metadata of addMemory: nothing, provenance only, or a
\* mapping that carries keys the manager also writes.
OldStamp == ToISOString(0)
CallerMetas ==
    { [source |-> Str("api")],
      [source |-> Str("api"), timestamp |-> OldStamp],
      [source |-> Str("api"), memoryId |-> MemId(1)] }

\* The metadata argument of createConversation.
CreateMetas ==
    { [name |-> Str("room"), description |-> Str("a room"),
       participants |-> List(<<"bob">>)] }

\* The userId argument of ensureConversation.
UserIds == {Undef}

\* What the store may hold for one namespace before the manager first
\* runs: nothing, or a namespace another writer left without its platform
\* or with an empty platformId.
ForeignId == createDeterministicId("discord", "alice")
ForeignMetas ==
    { [exists |-> FALSE],
      [platformId |-> Str("alice")],
      [platform |-> Str("discord"), platformId |-> Str("")] }
ForeignLog(md) ==
    IF md \notin ForeignMetas \/ md = [exists |-> FALSE] THEN <<>>
    ELSE << [content |-> "old",
             metadata |-> [memoryId |-> MemId(0), timestamp |-> OldStamp],
             src |-> [id |-> MemId(0), conversationId |-> ForeignId,
                      content |-> "old", timestamp |-> 0,
                      metadata |-> <<>>]] >>

(***************************************************************************)
(* State.                                                                  *)
(***************************************************************************)
VARIABLES
    keys,       \* the (platform, local id) pairs the callers use
    vectorDb,   \* whether a store was handed to the constructor
    meta,       \* store: namespace id -> its metadata mapping, or NoNamespace
    log,        \* store: namespace id -> its content log
    markers,    \* store: processed markers, <<contentId, namespace id>>
    clock,      \* wall clock: [now, ticks]
    nextId,     \* number of Memory objects created so far
    pc,         \* per task: the suspension point it is at
    loc,        \* per task: arguments, locals and result of its operation
    hist,       \* history: what earlier calls returned
    registry,   \* processor name -> the names of its child processors
    inv,        \* the process() invocation under way
    mind        \* Consciousness: recent-action buffer and its history

managerVars == <<keys, vectorDb, meta, log, markers, clock, nextId, pc, loc, hist>>
processorVars == <<registry, inv>>
consciousnessVars == <<mind>>
vars == <<managerVars, processorVars, consciousnessVars>>

Tasks == {1, 2}

NoNamespace == [exists |-> FALSE]
NoMemory == [none |-> TRUE]
NoRet == [kind |-> "none"]
Return(v) == [kind |-> "return", val |-> v]
Throw(e) == [kind |-> "throw", err |-> e]

NoLoc ==
    [op |-> "none", cid |-> NoId, content |-> "", cmeta |-> <<>>,
     contentId |-> "", platformId |-> "", platform |-> "", cmd |-> <<>>,
     conv |-> Absent, metaSeen |-> NoNamespace, memory |-> NoMemory,
     ids |-> <<>>, acc |-> <<>>, visited |-> <<>>, recent |-> <<>>,
     awaited |-> TRUE,
     issued |-> <<>>, faults |-> <<>>, ret |-> NoRet]

\* Consciousness before its first thought.  generated is a history field:
\* the contents of the thoughts generated so far.
\* thoughtInterval is the timer handle (line 14: null, and nothing sets
\* it); stopped is a history field: stop() has been called.
NoMind == [recentActions |-> <<>>, generated |-> <<>>,
           thoughtInterval |-> [t |-> "null"], stopped |-> FALSE]

NoHist == [failed |-> {}, marked |-> {}, ensured |-> {}]

\* The conversation ids the callers pass.
ScopeIds == {createDeterministicId(k[1], k[2]) : k \in keys}

(***************************************************************************)
(* The store adapter (ChromaVectorDB), from the interface the manager      *)
(* consumes.  Every call may fail; a failed call changes nothing.          *)
(***************************************************************************)
\* getCollectionForConversation(id).metadata: the namespace's metadata; a
\* namespace that does not exist has none.
NamespaceMetadata(id) == meta[id]

\* collection.modify({metadata}): creates or re-labels the namespace.
SetNamespaceMetadata(id, md) == [meta EXCEPT ![id] = md]

\* storeInConversation(content, id, metadata): appends one item.  src is a
\* history field (the Memory object the item was written for); no
\* operation reads it.
StoreInConversation(content, id, md, src) ==
    [log EXCEPT ![id] = Append(@, [content |-> content, metadata |-> md, src |-> src])]

\* getMemoriesFromConversation(id): the namespace's items in append order.
ListContent(id) == log[id]

\* findSimilarInConversation(content, id, limit): at most limit items of
\* the namespace; which ones is the search's business.
FindSimilarInConversation(content, id, limit) ==
    {SubSeq(log[id], 1, n) :
        n \in 0..(IF Len(log[id]) < limit THEN Len(log[id]) ELSE limit)}

\* listConversations(): the ids of the namespaces that exist, in the
\* store's enumeration order.
EnumerationOrder ==
    << <<"consciousness", "main">>, <<"consciousness", "alice">>,
       <<"consciousness", "">>, <<"discord", "main">>,
       <<"discord", "alice">>, <<"discord", "">> >>
IsNamespace(id) == meta[id] # NoNamespace
ListNamespaces == SelectSeq(EnumerationOrder, IsNamespace)

\* hasProcessedContent(contentId, conversation)
HasProcessedMarker(contentId, conv) == <<contentId, conv.id>> \in markers

\* markContentAsProcessed(contentId, conversation)
SetProcessedMarker(contentId, conv) == markers \cup {<<contentId, conv.id>>}

(***************************************************************************)
(* Task bookkeeping.                                                       *)
(***************************************************************************)
Issue(l, call, id) == [l EXCEPT !.issued = Append(@, <<call, id>>)]
Fault(l, call) == [l EXCEPT !.faults = Append(@, l.issued[Len(l.issued)])]
Issued(l, call) == \E i \in 1..Len(l.issued) : l.issued[i][1] = call
Faulted(l, call) == \E i \in 1..Len(l.faults) : l.faults[i][1] = call
FaultedAt(l, call, id) == \E i \in 1..Len(l.faults) : l.faults[i] = <<call, id>>

Goto(p, label, l) ==
    /\ pc' = [pc EXCEPT ![p] = label]
    /\ loc' = [loc EXCEPT ![p] = l]

Done(p, l, r) == Goto(p, "done", [l EXCEPT !.ret = r])

\* Memory objects promised to running addMemory calls but not created yet.
Pending ==
    Cardinality({q \in Tasks : loc[q].op = "addMemory"
                               /\ pc[q] \in {"gc_meta", "gc_hydrate", "resolved"}})

(***************************************************************************)
(* getConversation                                                         *)
(***************************************************************************)
\* lines 40-47: the required-metadata check.
MissingRequiredLax(md) == ~Truthy(Get(md, "platform"))
MissingRequired(md) ==
    ~Truthy(Get(md, "platform")) \/ ~Truthy(Get(md, "platformId"))

\* lines 50-62: the Conversation rebuilt from stored metadata.
ConversationFromMetadata(md, now) ==
    NewConversation(md["platformId"].v, md["platform"].v,
        [name |-> Get(md, "name"),
         description |-> Get(md, "description"),
         participants |-> Get(md, "participants"),
         createdAt |-> NewDate(Get(md, "created")),
         lastActive |-> NewDate(OrElse(Get(md, "lastActive"), Get(md, "created")))],
        now)

\* lines 67-74 and 346-352: one stored item as a Memory.
FormatMemory(item, convId) ==
    [id |-> OrElse(Get(item.metadata, "memoryId"), Get(item.metadata, "id")),
     conversationId |-> convId,
     content |-> item.content,
     timestamp |-> NewDate(Get(item.metadata, "timestamp")),
     metadata |-> item.metadata]

FormatMemoriesStale(items, convId) ==
    [i \in 1..(Len(items) - 1) |-> FormatMemory(items[i], convId)]
FormatMemories(items, convId) ==
    [i \in 1..Len(items) |-> FormatMemory(items[i], convId)]

\* Where a task goes once its getConversation call has returned l.conv.
AfterGet(p, l) ==
    IF l.op \in {"getConversation", "getConversationByPlatformId"}
    THEN Done(p, l, Return(l.conv))
    ELSE Goto(p, "resolved", l)

\* What happens when the memory read of getConversation throws.
HydrateFailedRaises(p, l) == Done(p, l, Throw("store"))
HydrateFailed(p, l) == AfterGet(p, l)

CallGetConversation(p) ==
    /\ pc[p] = "idle"
    /\ \E cid \in ScopeIds :
        LET l == [NoLoc EXCEPT !.op = "getConversation", !.cid = cid]
        IN  IF vectorDb THEN Goto(p, "gc_meta", l) ELSE Done(p, l, Return(Absent))
    /\ UNCHANGED <<processorVars, consciousnessVars, keys, vectorDb, meta, log, markers, clock, nextId, hist>>

\* lines 34-62, 88-98: the metadata fetch and what follows it.
GcFetchMeta(p) ==
    /\ pc[p] = "gc_meta"
    /\ LET l0 == Issue(loc[p], "getCollection", loc[p].cid)
       IN \E ok \in BOOLEAN :
            IF ~ok
            THEN AfterGet(p, [Fault(l0, "getCollection") EXCEPT !.conv = Absent])
            ELSE LET md == NamespaceMetadata(l0.cid)
                     l1 == [l0 EXCEPT !.metaSeen = md]
                 IN  IF MissingRequired(md)
                     THEN AfterGet(p, [l1 EXCEPT !.conv = Absent])
                     ELSE Goto(p, "gc_hydrate",
                               [l1 EXCEPT !.conv = ConversationFromMetadata(md, clock.now)])
    /\ UNCHANGED <<processorVars, consciousnessVars, keys, vectorDb, meta, log, markers, clock, nextId, hist>>

\* lines 64-87: best-effort load of the persisted memories.
GcHydrate(p) ==
    /\ pc[p] = "gc_hydrate"
    /\ LET l0 == Issue(loc[p], "getMemories", loc[p].cid)
       IN \E ok \in BOOLEAN :
            IF ~ok
            THEN HydrateFailed(p, Fault(l0, "getMemories"))
            ELSE AfterGet(p, [l0 EXCEPT !.conv =
                     loadMemories(l0.conv, FormatMemories(ListContent(l0.cid), l0.conv.id))])
    /\ UNCHANGED <<processorVars, consciousnessVars, keys, vectorDb, meta, log, markers, clock, nextId, hist>>

(***************************************************************************)
(* addMemory                                                               *)
(***************************************************************************)
CallAddMemory(p) ==
    /\ pc[p] = "idle"
    /\ nextId + Pending < MaxMem
    /\ \E cid \in ScopeIds, c \in Contents, md \in CallerMetas :
        LET l == [NoLoc EXCEPT !.op = "addMemory", !.cid = cid,
                               !.content = c, !.cmeta = md]
        IN  IF vectorDb THEN Goto(p, "gc_meta", l)
            ELSE Done(p, l, Throw("VectorDB required"))
    /\ UNCHANGED <<processorVars, consciousnessVars, keys, vectorDb, meta, log, markers, clock, nextId, hist>>

\* lines 186-188: what addMemory raises for an unresolved conversation.
NotFoundUnchecked(l) == Throw("TypeError")
NotFound(l) == Throw("not found")

\* lines 185-191: not-found check, then the in-memory append.
AddMemoryResolved(p) ==
    /\ pc[p] = "resolved"
    /\ loc[p].op = "addMemory"
    /\ LET l == loc[p]
       IN IF ~l.conv.present
          THEN /\ Done(p, l, NotFound(l))
               /\ UNCHANGED nextId
          ELSE LET m == NewMemory(l.conv, l.content, l.cmeta, MemId(nextId + 1), clock.now)
               IN /\ Goto(p, "am_store",
                          [l EXCEPT !.memory = m, !.conv = ConvAddMemory(l.conv, m, clock.now)])
                  /\ nextId' = nextId + 1
    /\ UNCHANGED <<processorVars, consciousnessVars, keys, vectorDb, meta, log, markers, clock, hist>>

\* lines 198-204: the metadata written with the item.
StoredMetadata(m, conv, cmeta) ==
    Spread(
        [memoryId |-> m.id, timestamp |-> ToISOString(m.timestamp),
         platform |-> Str(conv.platform), platformId |-> Str(conv.platformId)],
        cmeta)

\* lines 217-228: what a failed store write makes addMemory do.
StoreFailedSwallowed(l) == Return(l.memory)
StoreFailed(l) == Throw("store")

\* lines 195-205: the store call of addMemory appends one item to the
\* conversation's namespace.
WriteThroughReplacing(l) ==
    [log EXCEPT ![l.conv.id] =
        << [content |-> l.memory.content,
            metadata |-> StoredMetadata(l.memory, l.conv, l.cmeta),
            src |-> l.memory] >>]
WriteThrough(l) ==
    StoreInConversation(l.memory.content, l.conv.id,
                        StoredMetadata(l.memory, l.conv, l.cmeta), l.memory)

\* line 216: what addMemory returns once the write went through.
StoredReturnsNewest(l) ==
    IF log[l.conv.id] = <<>> THEN Return(l.memory)
    ELSE Return(log[l.conv.id][Len(log[l.conv.id])].src)
Stored(l) == Return(l.memory)

\* lines 193-228: the write-through.
AmStore(p) ==
    /\ pc[p] = "am_store"
    /\ LET l == Issue(loc[p], "storeInConversation", loc[p].conv.id)
       IN \E ok \in BOOLEAN :
            IF ok
            THEN /\ log' = WriteThrough(l)
                 /\ UNCHANGED hist
                 /\ Done(p, l, Stored(l))
            ELSE /\ UNCHANGED log
                 /\ hist' = [hist EXCEPT !.failed = @ \cup {l.memory.id.n}]
                 /\ Done(p, Fault(l, "storeInConversation"), StoreFailed(l))
    /\ UNCHANGED <<processorVars, consciousnessVars, keys, vectorDb, meta, markers, clock, nextId>>

(***************************************************************************)
(* getMemoriesFromConversation                                             *)
(***************************************************************************)
CallGetMemories(p) ==
    /\ pc[p] = "idle"
    /\ \E cid \in ScopeIds :
        LET l == [NoLoc EXCEPT !.op = "getMemories", !.cid = cid]
        IN  IF vectorDb THEN Goto(p, "gc_meta", l)
            ELSE Done(p, l, Throw("VectorDB required"))
    /\ UNCHANGED <<processorVars, consciousnessVars, keys, vectorDb, meta, log, markers, clock, nextId, hist>>

\* lines 335-338
GetMemoriesResolved(p) ==
    /\ pc[p] = "resolved"
    /\ loc[p].op = "getMemories"
    /\ IF loc[p].conv.present
       THEN Goto(p, "gm_list", loc[p])
       ELSE Done(p, loc[p], NotFound(loc[p]))
    /\ UNCHANGED <<processorVars, consciousnessVars, keys, vectorDb, meta, log, markers, clock, nextId, hist>>

\* lines 340-363
GmList(p) ==
    /\ pc[p] = "gm_list"
    /\ LET l == Issue(loc[p], "getMemories", loc[p].cid)
       IN \E ok \in BOOLEAN :
            IF ok
            THEN Done(p, l, Return(FormatMemories(ListContent(l.cid), l.cid)))
            ELSE Done(p, Fault(l, "getMemories"), Throw("store"))
    /\ UNCHANGED <<processorVars, consciousnessVars, keys, vectorDb, meta, log, markers, clock, nextId, hist>>

(***************************************************************************)
(* findSimilarMemoriesInConversation                                       *)
(***************************************************************************)
\* line 234: limit = 5
DefaultLimit == 5

\* lines 252-262: one search result as a Memory; platform and platformId
\* of the resolved conversation are spread last.
SimilarMemoryStoreWins(item, conv, cid) ==
    [id |-> Get(item.metadata, "memoryId"),
     conversationId |-> cid,
     content |-> item.content,
     timestamp |-> NewDate(Get(item.metadata, "timestamp")),
     metadata |-> Spread([platform |-> Str(conv.platform),
                          platformId |-> Str(conv.platformId)],
                         item.metadata)]
SimilarMemory(item, conv, cid) ==
    [id |-> Get(item.metadata, "memoryId"),
     conversationId |-> cid,
     content |-> item.content,
     timestamp |-> NewDate(Get(item.metadata, "timestamp")),
     metadata |-> Spread(item.metadata,
                         [platform |-> Str(conv.platform),
                          platformId |-> Str(conv.platformId)])]

CallFindSimilar(p) ==
    /\ pc[p] = "idle"
    /\ \E cid \in ScopeIds, c \in Contents :
        LET l == [NoLoc EXCEPT !.op = "findSimilar", !.cid = cid, !.content = c]
        IN  IF vectorDb THEN Goto(p, "gc_meta", l)
            ELSE Done(p, l, Throw("VectorDB required"))
    /\ UNCHANGED <<processorVars, consciousnessVars, keys, vectorDb, meta, log, markers, clock, nextId, hist>>

\* lines 240-243
FindSimilarResolved(p) ==
    /\ pc[p] = "resolved"
    /\ loc[p].op = "findSimilar"
    /\ IF loc[p].conv.present
       THEN Goto(p, "fs_search", loc[p])
       ELSE Done(p, loc[p], NotFound(loc[p]))
    /\ UNCHANGED <<processorVars, consciousnessVars, keys, vectorDb, meta, log, markers, clock, nextId, hist>>

\* lines 245-273
FsSearch(p) ==
    /\ pc[p] = "fs_search"
    /\ LET l == Issue(loc[p], "findSimilar", loc[p].cid)
       IN \/ Done(p, Fault(l, "findSimilar"), Throw("store"))
          \/ \E found \in FindSimilarInConversation(l.content, l.cid, DefaultLimit) :
                Done(p, l, Return([i \in 1..Len(found) |->
                                      SimilarMemory(found[i], l.conv, l.cid)]))
    /\ UNCHANGED <<processorVars, consciousnessVars, keys, vectorDb, meta, log, markers, clock, nextId, hist>>

(***************************************************************************)
(* hasProcessedContentInConversation, markContentAsProcessed               *)
(***************************************************************************)
CallHasProcessed(p) ==
    /\ pc[p] = "idle"
    /\ \E cid \in ScopeIds, k \in ContentIds :
        LET l == [NoLoc EXCEPT !.op = "hasProcessed", !.cid = cid, !.contentId = k]
        IN  IF vectorDb THEN Goto(p, "gc_meta", l)
            ELSE Done(p, l, Throw("VectorDB required"))
    /\ UNCHANGED <<processorVars, consciousnessVars, keys, vectorDb, meta, log, markers, clock, nextId, hist>>

\* lines 374-384
HasProcessedResolved(p) ==
    /\ pc[p] = "resolved"
    /\ loc[p].op = "hasProcessed"
    /\ IF loc[p].conv.present
       THEN Goto(p, "hp_query", loc[p])
       ELSE Done(p, loc[p], Return(FALSE))
    /\ UNCHANGED <<processorVars, consciousnessVars, keys, vectorDb, meta, log, markers, clock, nextId, hist>>

\* line 386: the answer is the store's.
HasProcessedAnswerNegated(contentId, conv) == ~HasProcessedMarker(contentId, conv)
HasProcessedAnswer(contentId, conv) == HasProcessedMarker(contentId, conv)

\* line 386: the marker query.
HpQueryMarks(p) ==
    /\ pc[p] = "hp_query"
    /\ LET l == Issue(loc[p], "hasProcessedContent", loc[p].conv.id)
       IN \E ok \in BOOLEAN :
            IF ok
            THEN /\ markers' = SetProcessedMarker(l.contentId, l.conv)
                 /\ Done(p, l, Return(HasProcessedAnswer(l.contentId, l.conv)))
            ELSE /\ UNCHANGED markers
                 /\ Done(p, Fault(l, "hasProcessedContent"), Throw("store"))
    /\ UNCHANGED <<processorVars, consciousnessVars, keys, vectorDb, meta, log, clock, nextId, hist>>
HpQuery(p) ==
    /\ pc[p] = "hp_query"
    /\ LET l == Issue(loc[p], "hasProcessedContent", loc[p].conv.id)
       IN \E ok \in BOOLEAN :
            IF ok
            THEN Done(p, l, Return(HasProcessedAnswer(l.contentId, l.conv)))
            ELSE Done(p, Fault(l, "hasProcessedContent"), Throw("store"))
    /\ UNCHANGED <<processorVars, consciousnessVars, keys, vectorDb, meta, log, markers, clock, nextId, hist>>

CallMarkProcessed(p) ==
    /\ pc[p] = "idle"
    /\ \E cid \in ScopeIds, k \in ContentIds :
        LET l == [NoLoc EXCEPT !.op = "markProcessed", !.cid = cid, !.contentId = k]
        IN  IF vectorDb THEN Goto(p, "gc_meta", l)
            ELSE Done(p, l, Throw("VectorDB required"))
    /\ UNCHANGED <<processorVars, consciousnessVars, keys, vectorDb, meta, log, markers, clock, nextId, hist>>

\* lines 401-410: what markContentAsProcessed answers for an unresolved
\* conversation.
MarkUnresolvedThrows(l) == Throw("not found")
MarkUnresolved(l) == Return(FALSE)

\* lines 399-410
MarkProcessedResolved(p) ==
    /\ pc[p] = "resolved"
    /\ loc[p].op = "markProcessed"
    /\ IF loc[p].conv.present
       THEN Goto(p, "mp_write", loc[p])
       ELSE Done(p, loc[p], MarkUnresolved(loc[p]))
    /\ UNCHANGED <<processorVars, consciousnessVars, keys, vectorDb, meta, log, markers, clock, nextId, hist>>

\* lines 412-413
MpWrite(p) ==
    /\ pc[p] = "mp_write"
    /\ LET l == Issue(loc[p], "markContentAsProcessed", loc[p].conv.id)
       IN \E ok \in BOOLEAN :
            IF ok
            THEN /\ markers' = SetProcessedMarker(l.contentId, l.conv)
                 /\ Done(p, l, Return(TRUE))
            ELSE /\ UNCHANGED markers
                 /\ Done(p, Fault(l, "markContentAsProcessed"), Throw("store"))
    /\ UNCHANGED <<processorVars, consciousnessVars, keys, vectorDb, meta, log, clock, nextId, hist>>

(***************************************************************************)
(* getConversationByPlatformId                                             *)
(***************************************************************************)
\* lines 105-112: the id that is looked up.
LookupIdUnnormalized(platformId, platform) ==
    createDeterministicId(platform, platformId)
LookupId(platformId, platform) ==
    createDeterministicId(platform,
        IF platform = "consciousness" THEN "main" ELSE platformId)

CallGetConversationByPlatformId(p) ==
    /\ pc[p] = "idle"
    /\ \E <<pf, x>> \in keys :
        LET l == [NoLoc EXCEPT !.op = "getConversationByPlatformId",
                               !.platformId = x, !.platform = pf,
                               !.cid = LookupId(x, pf)]
        IN  IF vectorDb THEN Goto(p, "gc_meta", l) ELSE Done(p, l, Return(Absent))
    /\ UNCHANGED <<processorVars, consciousnessVars, keys, vectorDb, meta, log, markers, clock, nextId, hist>>

(***************************************************************************)
(* createConversation                                                      *)
(***************************************************************************)
CallCreateConversation(p) ==
    /\ pc[p] = "idle"
    /\ \E <<pf, x>> \in keys, md \in CreateMetas :
        LET l == [NoLoc EXCEPT !.op = "createConversation",
                               !.platformId = x, !.platform = pf, !.cmd = md]
        IN  IF vectorDb
            THEN Goto(p, "cc_getcoll",
                      [l EXCEPT !.conv = NewConversation(x, pf, md, clock.now)])
            ELSE Done(p, l, Throw("VectorDB required"))
    /\ UNCHANGED <<processorVars, consciousnessVars, keys, vectorDb, meta, log, markers, clock, nextId, hist>>

\* lines 161-173: what a failed store call makes createConversation do.
CreateFailedSoft(l) == Return(l.conv)
CreateFailed(l) == Throw("store")

\* lines 128-130: the namespace is obtained.
CcGetCollection(p) ==
    /\ pc[p] = "cc_getcoll"
    /\ LET l == Issue(loc[p], "getCollection", loc[p].conv.id)
       IN \E ok \in BOOLEAN :
            IF ok THEN Goto(p, "cc_modify", l)
            ELSE Done(p, Fault(l, "getCollection"), CreateFailed(l))
    /\ UNCHANGED <<processorVars, consciousnessVars, keys, vectorDb, meta, log, markers, clock, nextId, hist>>

\* lines 134-146: the metadata the namespace is labelled with.
NamespaceLabel(conv, md) ==
    [description |-> Str("Conversation-specific memory storage"),
     conversationId |-> [t |-> "convid", v |-> conv.id],
     platform |-> Str(conv.platform),
     platformId |-> Str(conv.platformId),
     created |-> ToISOString(conv.createdAt),
     lastActive |-> ToISOString(conv.lastActive),
     name |-> Get(md, "name"),
     participants |-> Get(md, "participants"),
     userId |-> Get(md, "userId")]

\* lines 133-160: the metadata write.
CcModify(p) ==
    /\ pc[p] = "cc_modify"
    /\ LET l == Issue(loc[p], "modify", loc[p].conv.id)
       IN \E ok \in BOOLEAN :
            IF ok
            THEN /\ meta' = SetNamespaceMetadata(l.conv.id, NamespaceLabel(l.conv, l.cmd))
                 /\ Done(p, l, Return(l.conv))
            ELSE /\ UNCHANGED meta
                 /\ Done(p, Fault(l, "modify"), CreateFailed(l))
    /\ UNCHANGED <<processorVars, consciousnessVars, keys, vectorDb, log, markers, clock, nextId, hist>>

(***************************************************************************)
(* listConversations                                                       *)
(***************************************************************************)
\* lines 277-279
CallListConversations(p) ==
    /\ pc[p] = "idle"
    /\ LET l == [NoLoc EXCEPT !.op = "listConversations"]
       IN  IF vectorDb THEN Goto(p, "lc_list", l) ELSE Done(p, l, Return(<<>>))
    /\ UNCHANGED <<processorVars, consciousnessVars, keys, vectorDb, meta, log, markers, clock, nextId, hist>>

\* The loop of lines 284-289 at its next id, or the return of line 291.
\* visited is a history field: each id the loop has been through, with
\* the metadata its fetch saw.
ListNext(p, l) ==
    IF Len(l.visited) = Len(l.ids)
    THEN Done(p, l, Return(l.acc))
    ELSE Goto(p, "gc_meta", [l EXCEPT !.cid = l.ids[Len(l.visited) + 1],
                                      !.conv = Absent,
                                      !.metaSeen = NoNamespace])

\* line 281: the enumeration; it is outside any try block.
LcList(p) ==
    /\ pc[p] = "lc_list"
    /\ LET l == Issue(loc[p], "listConversations", NoId)
       IN \E ok \in BOOLEAN :
            IF ok THEN ListNext(p, [l EXCEPT !.ids = ListNamespaces])
            ELSE Done(p, Fault(l, "listConversations"), Throw("store"))
    /\ UNCHANGED <<processorVars, consciousnessVars, keys, vectorDb, meta, log, markers, clock, nextId, hist>>

\* line 286: whether the resolved conversation is kept.
KeepsAll(conv) == TRUE
Keeps(conv) == conv.present

\* lines 285-289: one id has been resolved.
ListResolved(p) ==
    /\ pc[p] = "resolved"
    /\ loc[p].op = "listConversations"
    /\ LET l == loc[p]
       IN ListNext(p, [l EXCEPT
                !.visited = Append(@, [id |-> l.cid, md |-> l.metaSeen]),
                !.acc = IF Keeps(l.conv) THEN Append(@, l.conv) ELSE @])
    /\ UNCHANGED <<processorVars, consciousnessVars, keys, vectorDb, meta, log, markers, clock, nextId, hist>>

(***************************************************************************)
(* ensureConversation                                                      *)
(***************************************************************************)
\* lines 299-302: the lookup; no store is needed to get here.
CallEnsureConversation(p) ==
    /\ pc[p] = "idle"
    /\ \E <<pf, x>> \in keys, u \in UserIds :
        LET l == [NoLoc EXCEPT !.op = "ensureConversation",
                               !.platformId = x, !.platform = pf,
                               !.cid = LookupId(x, pf),
                               !.cmd = [name |-> Str(x),
                                        description |-> [t |-> "template", v |-> x],
                                        participants |-> List(<<>>),
                                        userId |-> u]]
        IN  IF vectorDb THEN Goto(p, "gc_meta", l)
            ELSE Done(p, l, Throw("VectorDB required"))
    /\ UNCHANGED <<processorVars, consciousnessVars, keys, vectorDb, meta, log, markers, clock, nextId, hist>>

\* line 303: whether the create path is taken.
MustCreate(l) == ~l.conv.present

\* lines 303-311
EnsureResolved(p) ==
    /\ pc[p] = "resolved"
    /\ loc[p].op = "ensureConversation"
    /\ LET l == loc[p]
       IN IF MustCreate(l)
          THEN Goto(p, "cc_getcoll",
                    [l EXCEPT !.conv = NewConversation(l.platformId, l.platform,
                                                       l.cmd, clock.now)])
          ELSE Done(p, l, Return(l.conv))
    /\ UNCHANGED <<processorVars, consciousnessVars, keys, vectorDb, meta, log, markers, clock, nextId, hist>>

(***************************************************************************)
(* deleteConversation                                                      *)
(***************************************************************************)
CallDeleteConversation(p) ==
    /\ pc[p] = "idle"
    /\ \E cid \in ScopeIds :
        LET l == [NoLoc EXCEPT !.op = "deleteConversation", !.cid = cid]
        IN  IF vectorDb THEN Goto(p, "dc_delete", l) ELSE Done(p, l, Return(Undef))
    /\ UNCHANGED <<processorVars, consciousnessVars, keys, vectorDb, meta, log, markers, clock, nextId, hist>>

\* line 319: the namespace goes, with its log and its markers.
DcDelete(p) ==
    /\ pc[p] = "dc_delete"
    /\ LET l == Issue(loc[p], "deleteConversation", loc[p].cid)
       IN \E ok \in BOOLEAN :
            IF ok
            THEN /\ meta' = [meta EXCEPT ![l.cid] = NoNamespace]
                 /\ log' = [log EXCEPT ![l.cid] = <<>>]
                 /\ markers' = {m \in markers : m[2] # l.cid}
                 /\ hist' = [failed |-> hist.failed,
                             marked |-> {m \in hist.marked : m[2] # l.cid},
                             ensured |-> {e \in hist.ensured : e.id # l.cid}]
                 /\ Done(p, l, Return(Undef))
            ELSE /\ UNCHANGED <<meta, log, markers, hist>>
                 /\ Done(p, Fault(l, "deleteConversation"), Throw("store"))
    /\ UNCHANGED <<processorVars, consciousnessVars, keys, vectorDb, clock, nextId>>

(***************************************************************************)
(* Consciousness (src/unnamed/part_000, lines 1-288).                      *)
(***************************************************************************)
\* line 11: the id think passes to the manager; it names the conversation
\* of the reserved pair.
CONVERSATION_ID == createDeterministicId("consciousness", "main")

\* The thoughts think may generate before the model stops calling it.
MaxThoughts == 11

\* line 67: how many recent actions are kept.
RecentLimit == 10

\* What the inference backend answers on its k-th success: a text never
\* produced before.
ThoughtText(k) == <<"thought", k>>
LlmThought(k) ==
    [thoughtType |-> "reflection", thought |-> ThoughtText(k),
     reasoning |-> "because",
     context |-> [topics |-> <<"orchards">>],
     suggestedActions |-> <<>>]

\* lines 244-255: the thought generateThought returns.
GeneratedThought(response, now) ==
    [content |-> response.thought,
     type |-> response.thoughtType,
     source |-> "consciousness",
     context |-> Spread([reasoning |-> response.reasoning],
                   Spread(response.context,
                          [type |-> response.thoughtType,
                           suggestedActions |-> response.suggestedActions])),
     timestamp |-> now]

\* lines 58-63: the metadata think hands to addMemory.
ThoughtMetadata(thought) ==
    [type |-> Str("internal_thought"), source |-> Str("consciousness"),
     content |-> Str(thought.content),
     timestamp |-> [t |-> "date", v |-> thought.timestamp]]

\* lines 71-82: the Thought think returns.
InternalThought(thought) ==
    [type |-> "internal_thought", source |-> "consciousness",
     content |-> thought.content, timestamp |-> thought.timestamp,
     metadata |-> Spread(thought.context,
                         [suggestedActions |-> thought.context.suggestedActions,
                          conversationId |-> CONVERSATION_ID])]

\* lines 95-104: the Thought think returns from its catch block.
ErrorThought(message, now) ==
    [type |-> "error", source |-> "consciousness",
     content |-> "Error occurred during thought process",
     timestamp |-> now, metadata |-> [error |-> message]]

\* lines 85-105: what think does with anything thrown inside its try.
ThinkFailedRethrows(message) == Throw(message)
ThinkFailed(message) == Return(ErrorThought(message, clock.now))

\* lines 65-69: push, then drop the oldest once over the limit.
PushRecentDropsNewest(buf, content) ==
    IF Len(buf) + 1 > RecentLimit THEN buf ELSE Append(buf, content)
PushRecent(buf, content) ==
    LET pushed == Append(buf, content)
    IN  IF Len(pushed) > RecentLimit THEN Tail(pushed) ELSE pushed

\* The task a call made without await runs on.
Detached(p) == CHOOSE q \in Tasks : q # p

\* lines 39-41, 54-56, 109: start calls think, think calls generateThought,
\* which first looks the self-conversation up.  Thoughts are an interval
\* apart: the append of the previous one has settled.
CallThink(p) ==
    /\ pc[p] = "idle"
    /\ pc[Detached(p)] = "idle"
    /\ Len(mind.generated) < MaxThoughts
    /\ LET l == [NoLoc EXCEPT !.op = "think", !.cid = CONVERSATION_ID]
       IN  IF vectorDb THEN Goto(p, "gc_meta", l)
           ELSE Goto(p, "resolved", l)
    /\ UNCHANGED <<processorVars, consciousnessVars, keys, vectorDb, meta, log, markers, clock, nextId, hist>>

\* line 269: how many memories are taken from each conversation.
PerConversation == 5

\* line 260: limit = 10
RecentDefault == 10

\* lines 277-278: Array.prototype.sort with (a, b) => b.time - a.time: a
\* stable sort, latest first.  (The timestamps compared are valid dates.)
RECURSIVE SortLatestFirst(_)
SortLatestFirst(ms) ==
    IF ms = <<>> THEN <<>>
    ELSE LET x == ms[Len(ms)]
             sorted == SortLatestFirst(SubSeq(ms, 1, Len(ms) - 1))
             later == {i \in 1..Len(sorted) : sorted[i].timestamp < x.timestamp}
             at == IF later = {} THEN Len(sorted) + 1
                   ELSE CHOOSE i \in later : \A j \in later : i <= j
         IN  SubSeq(sorted, 1, at - 1) \o <<x>> \o SubSeq(sorted, at, Len(sorted))

\* lines 262-275: the memories collected from the conversations.
RECURSIVE CollectMemories(_)
CollectMemories(conversations) ==
    IF conversations = <<>> THEN <<>>
    ELSE LET conversation == conversations[1]
             memories == getMemories(conversation, PerConversation)
         IN  [i \in 1..Len(memories) |->
                 [content |-> memories[i].content,
                  conversationId |-> conversation.id,
                  timestamp |-> memories[i].timestamp]]
             \o CollectMemories(Tail(conversations))

\* lines 258-287
getRecentMemories(conversations, limit) ==
    LET sorted == SortLatestFirst(CollectMemories(conversations))
        n == IF Len(sorted) < limit THEN Len(sorted) ELSE limit
    IN  [i \in 1..n |-> [content |-> sorted[i].content,
                         conversationId |-> sorted[i].conversationId]]

\* lines 111-113: getRecentMemories([conversation!]) reads the memories of
\* what the lookup returned; undefined has none to read.
ThinkResolved(p) ==
    /\ pc[p] = "resolved"
    /\ loc[p].op = "think"
    /\ IF ~loc[p].conv.present
       THEN Done(p, loc[p], ThinkFailed("TypeError"))
       ELSE Goto(p, "th_context",
                 [loc[p] EXCEPT !.recent =
                     getRecentMemories(<<loc[p].conv>>, RecentDefault)])
    /\ UNCHANGED <<processorVars, consciousnessVars, keys, vectorDb, meta, log, markers, clock, nextId, hist>>

\* line 115: the context provider.
ThContext(p) ==
    /\ pc[p] = "th_context"
    /\ LET l == Issue(loc[p], "getContext", loc[p].cid)
       IN \E ok \in BOOLEAN :
            IF ok THEN Goto(p, "th_llm", l)
            ELSE Done(p, Fault(l, "getContext"), ThinkFailed("context"))
    /\ UNCHANGED <<processorVars, consciousnessVars, keys, vectorDb, meta, log, markers, clock, nextId, hist>>

\* lines 219-242: the milliseconds an answered inference call takes.
InferenceTime == 1

\* lines 219-255 and 56-83: the inference call with its schema validation,
\* then the rest of think: addMemory is called and not awaited, the
\* content is pushed, the Thought is returned.
ThLlm(p) ==
    /\ pc[p] = "th_llm"
    /\ LET l == Issue(loc[p], "validateLLMResponseSchema", loc[p].cid)
           q == Detached(p)
       IN \E outcome \in {"ok", "inference", "schema"} :
            IF outcome # "ok"
            THEN /\ Done(p, Fault(l, "validateLLMResponseSchema"), ThinkFailed(outcome))
                 /\ UNCHANGED <<mind, clock>>
            ELSE LET thought == GeneratedThought(LlmThought(Len(mind.generated) + 1),
                                                 clock.now + InferenceTime)
                     a == [NoLoc EXCEPT !.op = "addMemory",
                                        !.cid = CONVERSATION_ID,
                                        !.content = thought.content,
                                        !.cmeta = ThoughtMetadata(thought),
                                        !.awaited = FALSE]
                 IN /\ pc' = [pc EXCEPT ![p] = "done",
                                        ![q] = IF vectorDb THEN "gc_meta" ELSE "done"]
                    /\ loc' = [loc EXCEPT
                          ![p] = [l EXCEPT !.ret = Return(InternalThought(thought))],
                          ![q] = IF vectorDb THEN a
                                 ELSE [a EXCEPT !.ret = Throw("VectorDB required")]]
                    /\ mind' = [mind EXCEPT
                                  !.recentActions = PushRecent(@, thought.content),
                                  !.generated = Append(@, thought.content)]
                    /\ clock' = [clock EXCEPT !.now = @ + InferenceTime]
    /\ UNCHANGED <<processorVars, keys, vectorDb, meta, log, markers, nextId, hist>>

\* lines 43-52: stop clears the timer handle if there is one.
StoppedForgets(m) ==
    [m EXCEPT !.thoughtInterval = [t |-> "null"], !.recentActions = <<>>,
              !.stopped = TRUE]
Stopped(m) ==
    [m EXCEPT !.thoughtInterval = IF @.t # "null" THEN [t |-> "null"] ELSE @,
              !.stopped = TRUE]

\* lines 43-52
Stop ==
    /\ mind' = Stopped(mind)
    /\ UNCHANGED <<managerVars, processorVars>>

(***************************************************************************)
(* Environment, and the specification.                                     *)
(***************************************************************************)
\* History of what callers were handed: the pairs a markContentAsProcessed
\* returned true for, and the ensureConversation calls that returned a
\* Conversation.
Remember(h, l) ==
    CASE l.op = "markProcessed" /\ l.ret = Return(TRUE) ->
            [h EXCEPT !.marked = @ \cup {<<l.contentId, l.conv.id>>}]
      [] l.op = "ensureConversation" /\ l.ret.kind = "return" ->
            [h EXCEPT !.ensured = @ \cup {[name |-> l.platformId,
                                           platform |-> l.platform,
                                           id |-> l.ret.val.id]}]
      [] OTHER -> h

\* The caller takes the result; the task is free for the next call.
Finish(p) ==
    /\ pc[p] = "done"
    /\ pc' = [pc EXCEPT ![p] = "idle"]
    /\ loc' = [loc EXCEPT ![p] = NoLoc]
    /\ hist' = Remember(hist, loc[p])
    /\ UNCHANGED <<processorVars, consciousnessVars, keys, vectorDb, meta, log, markers, clock, nextId>>

\* Time passes: a second and a millisecond.
Tick ==
    /\ clock.ticks < MaxTicks
    /\ clock' = [now |-> clock.now + 1001, ticks |-> clock.ticks + 1]
    /\ UNCHANGED <<processorVars, consciousnessVars, keys, vectorDb, meta, log, markers, nextId, pc, loc, hist>>

(***************************************************************************)
(* MasterProcessor.  A text is known by what it is a prefix of and by its  *)
(* length; a processor is known by its registered name.                    *)
(***************************************************************************)
Text(base, len) == [base |-> base, len |-> len]

\* String.prototype.slice(0, n)
Slice(t, n) == [t EXCEPT !.len = IF @ < n THEN @ ELSE n]

\* BaseProcessor.contentLimit
ContentLimit == 1000

ProcessorNames == {"master", "childA", "childB"}

\* The processor trees: a chain, a flat tree, and a processor without
\* children.
Registries ==
    { [n \in ProcessorNames |->
          CASE n = "master" -> {"childA"} [] n = "childA" -> {"childB"} [] OTHER -> {}],
      [n \in ProcessorNames |-> IF n = "master" THEN {"childA", "childB"} ELSE {}],
      [n \in ProcessorNames |-> {}] }

\* Content handed to process(): strings and one object, by the length of
\* their string form.
ProcessableContents ==
    { [kind |-> "string", str |-> Text("hello...", 5)],
      [kind |-> "string", str |-> Text("hello...", 999)],
      [kind |-> "string", str |-> Text("hello...", 1000)],
      [kind |-> "object", str |-> Text("{\"a\":...", 999)],
      [kind |-> "object", str |-> Text("{\"a\":...", 1000)],
      [kind |-> "object", str |-> Text("{\"a\":...", 1001)] }

IoContexts ==
    { Undef,
      [t |-> "io", availableOutputs |-> <<"discord_reply">>, availableActions |-> <<>>] }

\* What the inference backend may answer once validated against the schema.
Delegates == {Undef, [t |-> "null"], Str(""), Str("childA"), Str("childB"), Str("ghost")}
LlmResults ==
    { [classification |->
           [contentType |-> "greeting", requiresProcessing |-> FALSE,
            delegateToProcessor |-> d,
            context |-> [topic |-> "hi", additionalContext |-> "none"]],
       enrichment |->
           [summary |-> Text("a greeting", 10), topics |-> <<"greetings">>,
            sentiment |-> "positive", entities |-> <<>>, intent |-> "greet"],
       updateTasks |->
           << [name |-> "check_mentions", confidence |-> 1, intervalMs |-> 60000,
               data |-> "none"],
              [name |-> "check_auctions", confidence |-> 1, intervalMs |-> 1000,
               data |-> "none"] >>,
       suggestedOutputs |->
           << [name |-> "discord_reply", data |-> "hi", confidence |-> 1,
               reasoning |-> "polite"],
              [name |-> "tweet", data |-> "hi all", confidence |-> 0,
               reasoning |-> "reach"] >>] : d \in Delegates }

\* The otherContext a caller passes: a text, here the pieces it was put
\* together from.
OtherContexts == { <<>>, <<Text("earlier talk", 12)>> }

\* content, otherContext and ioContext are what the caller passed; frames
\* holds what each processor of the chain received.  phases is a history
\* field: what each processor did, in order.
NoInvocation ==
    [pc |-> "idle", chain |-> <<>>, content |-> Undef, otherContext |-> <<>>,
     ioContext |-> Undef, frames |-> <<>>, trail |-> <<>>, phases |-> <<>>,
     asked |-> Undef, llmFailed |-> FALSE,
     contextFailed |-> FALSE, ret |-> NoRet]

\* The processor whose process() is running.
Current == inv.chain[Len(inv.chain)]

\* lines 43-44, 64-65: the content as a string.
ContentStr(content) == content.str

\* lines 41-48
CanHandleInclusive(content, limit) == ContentStr(content).len <= limit
CanHandle(content, limit) == ContentStr(content).len < limit

\* BaseProcessor.getProcessor(name) of processor n: the child registered
\* under that name, if any.
HasProcessor(n, name) == name \in registry[n]

\* lines 274-278: whether control passes to a child.
ShouldDelegateUnchecked(n, result, content) ==
    LET d == result.classification.delegateToProcessor
    IN  d.t = "string" /\ d.v # "" /\ HasProcessor(n, d.v)
ShouldDelegate(n, result, content) ==
    LET d == result.classification.delegateToProcessor
    IN  /\ d.t = "string" /\ d.v # ""
        /\ HasProcessor(n, d.v)
        /\ CanHandle(content, ContentLimit)

\* lines 74-78, 313-315, 337-339: ioContext?.availableOutputs.map(name)
AvailableOutputNames(io) == IF io = Undef THEN Undef ELSE List(io.availableOutputs)

\* lines 303-321: the finished result.
ProcessedResultReordered(n, content, result, io) ==
    [content |-> content,
     metadata |-> [topic |-> result.classification.context.topic,
                   additionalContext |-> result.classification.context.additionalContext,
                   contentType |-> result.classification.contentType],
     enrichedContext |->
         [summary |-> result.enrichment.summary,
          topics |-> result.enrichment.topics,
          sentiment |-> result.enrichment.sentiment,
          entities |-> result.enrichment.entities,
          intent |-> result.enrichment.intent,
          relatedMemories |-> <<>>,
          availableOutputs |-> AvailableOutputNames(io)],
     updateTasks |-> List(result.updateTasks),
     suggestedOutputs |->
         [i \in 1..Len(result.suggestedOutputs) |->
             result.suggestedOutputs[Len(result.suggestedOutputs) + 1 - i]],
     alreadyProcessed |-> FALSE,
     by |-> n]
ProcessedResult(n, content, result, io) ==
    [content |-> content,
     metadata |-> [topic |-> result.classification.context.topic,
                   additionalContext |-> result.classification.context.additionalContext,
                   contentType |-> result.classification.contentType],
     enrichedContext |->
         [summary |-> result.enrichment.summary,
          topics |-> result.enrichment.topics,
          sentiment |-> result.enrichment.sentiment,
          entities |-> result.enrichment.entities,
          intent |-> result.enrichment.intent,
          relatedMemories |-> <<>>,
          availableOutputs |-> AvailableOutputNames(io)],
     updateTasks |-> List(result.updateTasks),
     suggestedOutputs |-> result.suggestedOutputs,
     alreadyProcessed |-> FALSE,
     by |-> n]

\* lines 326-343: the degraded result.
DegradedResultUnsliced(n, content, io) ==
    [content |-> content,
     metadata |-> <<>>,
     enrichedContext |->
         [summary |-> ContentStr(content),
          topics |-> <<>>,
          relatedMemories |-> <<>>,
          sentiment |-> "neutral",
          entities |-> <<>>,
          intent |-> "unknown",
          availableOutputs |-> AvailableOutputNames(io)],
     updateTasks |-> Undef,
     suggestedOutputs |-> <<>>,
     alreadyProcessed |-> FALSE,
     by |-> n]
DegradedResult(n, content, io) ==
    [content |-> content,
     metadata |-> <<>>,
     enrichedContext |->
         [summary |-> Slice(ContentStr(content), 100),
          topics |-> <<>>,
          relatedMemories |-> <<>>,
          sentiment |-> "neutral",
          entities |-> <<>>,
          intent |-> "unknown",
          availableOutputs |-> AvailableOutputNames(io)],
     updateTasks |-> Undef,
     suggestedOutputs |-> <<>>,
     alreadyProcessed |-> FALSE,
     by |-> n]

\* lines 322-344: what a failed inference call or schema validation ends in.
ProcessingFailedRethrows(n, content, io) == Throw("inference")
ProcessingFailed(n, content, io) == Return(DegradedResult(n, content, io))

\* The arguments of the process() call under way.
Frame == inv.frames[Len(inv.frames)]

\* lines 288-294: the arguments the child is called with.
ChildArgsReplacing(frame, result) ==
    [content |-> frame.content,
     otherContext |-> <<result.enrichment.summary>>,
     ioContext |-> frame.ioContext]
ChildArgs(frame, result) ==
    [content |-> frame.content,
     otherContext |-> Append(frame.otherContext, result.enrichment.summary),
     ioContext |-> frame.ioContext]

\* A caller asks a processor whether it can handle a content; asked keeps
\* the question and the answer.
CallCanHandle ==
    /\ inv.pc = "idle"
    /\ \E n \in ProcessorNames, c \in ProcessableContents :
        inv' = [NoInvocation EXCEPT
                    !.asked = [name |-> n, content |-> c,
                               answer |-> CanHandle(c, ContentLimit)]]
    /\ UNCHANGED <<managerVars, consciousnessVars, registry>>

\* A caller invokes process() on the master processor.
CallProcess ==
    /\ inv.pc = "idle"
    /\ \E c \in ProcessableContents, oc \in OtherContexts, io \in IoContexts :
        inv' = [NoInvocation EXCEPT
                    !.pc = "context", !.chain = <<"master">>,
                    !.content = c, !.otherContext = oc, !.ioContext = io,
                    !.frames = << [content |-> c, otherContext |-> oc,
                                   ioContext |-> io] >>,
                    !.phases = << <<"master", "Received">> >>]
    /\ UNCHANGED <<managerVars, consciousnessVars, registry>>

\* line 61: the ambient context is awaited, outside the try block.
AwaitContext ==
    /\ inv.pc = "context"
    /\ \E ok \in BOOLEAN :
        inv' = IF ok THEN [inv EXCEPT !.pc = "classifying",
                                      !.phases = Append(@, <<Current, "Classifying">>)]
               ELSE [inv EXCEPT !.pc = "done", !.contextFailed = TRUE,
                                !.phases = Append(@, <<Current, "Raised">>),
                                !.ret = Throw("context")]
    /\ UNCHANGED <<managerVars, consciousnessVars, registry>>

\* lines 190-344: the inference call returns a validated result or fails;
\* then the processor delegates, finalizes, or degrades.
Classify ==
    /\ inv.pc = "classifying"
    /\ \/ inv' = [inv EXCEPT !.pc = "done", !.llmFailed = TRUE,
                             !.phases = Append(@, <<Current, "Failed">>),
                             !.ret = ProcessingFailed(Current, Frame.content,
                                                      Frame.ioContext)]
       \/ \E r \in LlmResults :
            LET seen == Append(inv.trail, [name |-> Current, result |-> r])
            IN IF ShouldDelegate(Current, r, Frame.content)
               THEN inv' = [inv EXCEPT
                        !.pc = "context",
                        !.trail = seen,
                        !.chain = Append(@, r.classification.delegateToProcessor.v),
                        !.frames = Append(@, ChildArgs(Frame, r)),
                        !.phases = @ \o << <<Current, "Delegating">>,
                                           <<r.classification.delegateToProcessor.v,
                                             "Received">> >>]
               ELSE inv' = [inv EXCEPT
                        !.pc = "done",
                        !.trail = seen,
                        !.phases = @ \o << <<Current, "Finalizing">>,
                                           <<Current, "Done">> >>,
                        !.ret = Return(ProcessedResult(Current, Frame.content, r,
                                                       Frame.ioContext))]
    /\ UNCHANGED <<managerVars, consciousnessVars, registry>>

\* The caller takes the result.
FinishProcess ==
    /\ inv.pc = "done"
    /\ inv' = NoInvocation
    /\ UNCHANGED <<managerVars, consciousnessVars, registry>>

InitStore(ks, metas) ==
    /\ keys = ks
    /\ vectorDb \in BOOLEAN
    /\ \E md \in metas :
        /\ meta = [i \in ConvIds |-> IF i = ForeignId THEN md ELSE NoNamespace]
        /\ log = [i \in ConvIds |-> IF i = ForeignId THEN ForeignLog(md) ELSE <<>>]
    /\ markers = {}
    /\ clock = [now |-> 0, ticks |-> 0]
    /\ nextId = 0
    /\ pc = [p \in Tasks |-> "idle"]
    /\ loc = [p \in Tasks |-> NoLoc]
    /\ hist = NoHist
    /\ registry = [n \in ProcessorNames |-> {}]
    /\ inv = NoInvocation
    /\ mind = NoMind

\* Resolving a conversation: shared by every operation.
GetStep(p) == GcFetchMeta(p) \/ GcHydrate(p)

\* Identity and creation: callers on three conversations, one caller at a
\* time (each operation is awaited before the next is called).
IdKeys == {<<"consciousness", "alice">>, <<"discord", "alice">>,
           <<"discord", "">>}
InitId == InitStore(IdKeys, ForeignMetas)
NextId ==
    \/ Tick
    \/ GetStep(1) \/ Finish(1)
    \/ CallGetConversation(1) \/ CallGetConversationByPlatformId(1)
    \/ CallCreateConversation(1) \/ CcGetCollection(1) \/ CcModify(1)
    \/ CallEnsureConversation(1) \/ EnsureResolved(1)
    \/ CallDeleteConversation(1) \/ DcDelete(1)
SpecId == InitId /\ [][NextId]_vars

\* Memories and markers of one conversation, one caller at a time.  The
\* namespace is as an earlier ensureConversation("alice", "discord") left
\* it, or as in InitId.
MemKeys == {<<"discord", "alice">>}
EnsuredLabel ==
    LET md == [name |-> Str("alice"),
               description |-> [t |-> "template", v |-> "alice"],
               participants |-> List(<<>>), userId |-> Undef]
    IN  NamespaceLabel(NewConversation("alice", "discord", md, 0), md)
InitMem == InitStore(MemKeys, ForeignMetas \cup {EnsuredLabel})
NextMem ==
    \/ Tick
    \/ GetStep(1) \/ Finish(1)
    \/ CallGetConversation(1)
    \/ CallAddMemory(1) \/ AddMemoryResolved(1) \/ AmStore(1)
    \/ CallGetMemories(1) \/ GetMemoriesResolved(1) \/ GmList(1)
    \/ CallFindSimilar(1) \/ FindSimilarResolved(1) \/ FsSearch(1)
    \/ CallHasProcessed(1) \/ HasProcessedResolved(1) \/ HpQuery(1)
    \/ CallMarkProcessed(1) \/ MarkProcessedResolved(1) \/ MpWrite(1)
    \/ CallDeleteConversation(1) \/ DcDelete(1)
SpecMem == InitMem /\ [][NextMem]_vars

\* The log of one conversation under every operation that touches its
\* namespace, creation over an existing namespace included.
InitLog == InitStore(MemKeys, ForeignMetas \cup {EnsuredLabel})
NextLog ==
    \/ GetStep(1) \/ Finish(1)
    \/ CallAddMemory(1) \/ AddMemoryResolved(1) \/ AmStore(1)
    \/ CallGetMemories(1) \/ GetMemoriesResolved(1) \/ GmList(1)
    \/ CallMarkProcessed(1) \/ MarkProcessedResolved(1) \/ MpWrite(1)
    \/ CallCreateConversation(1) \/ CcGetCollection(1) \/ CcModify(1)
    \/ CallEnsureConversation(1) \/ EnsureResolved(1)
    \/ CallDeleteConversation(1) \/ DcDelete(1)
SpecLog == InitLog /\ [][NextLog]_vars

\* Lookup by platform id: several local ids under the reserved platform
\* and under another one.
LookupKeys == {<<"consciousness", "main">>, <<"consciousness", "alice">>,
               <<"consciousness", "">>, <<"discord", "main">>,
               <<"discord", "alice">>}
InitLookup == InitStore(LookupKeys, ForeignMetas)
NextLookup ==
    \/ GetStep(1) \/ Finish(1)
    \/ CallGetConversationByPlatformId(1)
    \/ CallCreateConversation(1) \/ CcGetCollection(1) \/ CcModify(1)
SpecLookup == InitLookup /\ [][NextLookup]_vars

\* Similarity search over a labelled namespace that holds items of
\* another writer: one tagged with a platform and platformId of its own,
\* one with neither.
SimilarLog ==
    << [content |-> "old",
        metadata |-> [memoryId |-> MemId(0), timestamp |-> OldStamp,
                      platform |-> Str("telegram"), platformId |-> Str("zed")],
        src |-> [id |-> MemId(0), conversationId |-> ForeignId,
                 content |-> "old", timestamp |-> 0, metadata |-> <<>>]],
       [content |-> "older",
        metadata |-> [memoryId |-> MemId(0), timestamp |-> OldStamp],
        src |-> [id |-> MemId(0), conversationId |-> ForeignId,
                 content |-> "older", timestamp |-> 0, metadata |-> <<>>]] >>
InitSimilar ==
    /\ keys = MemKeys
    /\ vectorDb \in BOOLEAN
    /\ \E md \in ForeignMetas \cup {EnsuredLabel} :
        /\ meta = [i \in ConvIds |-> IF i = ForeignId THEN md ELSE NoNamespace]
        /\ log = [i \in ConvIds |->
                    IF i = ForeignId /\ md # NoNamespace THEN SimilarLog ELSE <<>>]
    /\ markers = {}
    /\ clock = [now |-> 0, ticks |-> 0]
    /\ nextId = 0
    /\ pc = [p \in Tasks |-> "idle"]
    /\ loc = [p \in Tasks |-> NoLoc]
    /\ hist = NoHist
    /\ registry = [n \in ProcessorNames |-> {}]
    /\ inv = NoInvocation
    /\ mind = NoMind
NextSimilar ==
    \/ Tick
    \/ GetStep(1) \/ Finish(1)
    \/ CallAddMemory(1) \/ AddMemoryResolved(1) \/ AmStore(1)
    \/ CallFindSimilar(1) \/ FindSimilarResolved(1) \/ FsSearch(1)
SpecSimilar == InitSimilar /\ [][NextSimilar]_vars

\* Creation and read-back by one caller: task 1 creates and holds the
\* returned Conversation while task 2 reads it back.
InitCreate == InitStore(MemKeys, ForeignMetas)
NextCreate ==
    \/ Tick
    \/ CallCreateConversation(1) \/ CcGetCollection(1) \/ CcModify(1)
    \/ (Finish(1) /\ pc[2] = "idle")
    \/ (CallGetConversation(2) /\ pc[1] = "done")
    \/ GetStep(2) \/ Finish(2)
SpecCreate == InitCreate /\ [][NextCreate]_vars

\* Two callers that ensure the same conversation while the clock runs; the
\* namespace is missing, foreign, or as an earlier ensureConversation left
\* it.
InitEnsure == InitStore(MemKeys, ForeignMetas \cup {EnsuredLabel})
NextEnsure ==
    \/ Tick
    \/ CallEnsureConversation(1) \/ CallEnsureConversation(2)
    \/ GetStep(1) \/ GetStep(2)
    \/ EnsureResolved(1) \/ EnsureResolved(2)
    \/ CcGetCollection(1) \/ CcGetCollection(2)
    \/ CcModify(1) \/ CcModify(2)
    \/ Finish(1) \/ Finish(2)
SpecEnsure == InitEnsure /\ [][NextEnsure]_vars

\* Two callers that add memories to one conversation at the same time.
InitAppend == InitStore(MemKeys, ForeignMetas \cup {EnsuredLabel})
NextAppend ==
    \/ CallAddMemory(1) \/ CallAddMemory(2)
    \/ GetStep(1) \/ GetStep(2)
    \/ AddMemoryResolved(1) \/ AddMemoryResolved(2)
    \/ AmStore(1) \/ AmStore(2)
    \/ Finish(1) \/ Finish(2)
SpecAppend == InitAppend /\ [][NextAppend]_vars

\* One caller adds memories to a conversation while another deletes it.
InitRace == InitStore(MemKeys, ForeignMetas \cup {EnsuredLabel})
NextRace ==
    \/ Tick
    \/ CallAddMemory(1) \/ GetStep(1) \/ AddMemoryResolved(1) \/ AmStore(1)
    \/ CallDeleteConversation(2) \/ DcDelete(2)
    \/ Finish(1) \/ Finish(2)
SpecRace == InitRace /\ [][NextRace]_vars

\* Every read operation, called by one caller over a namespace that holds
\* items while another caller sets markers.
InitRead == InitSimilar
NextRead ==
    \/ GetStep(1) \/ Finish(1)
    \/ CallGetConversation(1) \/ CallGetConversationByPlatformId(1)
    \/ CallListConversations(1) \/ LcList(1) \/ ListResolved(1)
    \/ CallGetMemories(1) \/ GetMemoriesResolved(1) \/ GmList(1)
    \/ CallFindSimilar(1) \/ FindSimilarResolved(1) \/ FsSearch(1)
    \/ CallHasProcessed(1) \/ HasProcessedResolved(1) \/ HpQuery(1)
    \/ GetStep(2) \/ Finish(2)
    \/ CallMarkProcessed(2) \/ MarkProcessedResolved(2) \/ MpWrite(2)
SpecRead == InitRead /\ [][NextRead]_vars

\* The thought loop over the self-conversation: its namespace is missing,
\* or labelled as an earlier ensureConversation("main", "consciousness")
\* left it.
ThinkKeys == {<<"consciousness", "main">>}
SelfLabel ==
    LET md == [name |-> Str("main"),
               description |-> [t |-> "template", v |-> "main"],
               participants |-> List(<<>>), userId |-> Undef]
    IN  NamespaceLabel(NewConversation("main", "consciousness", md, 0), md)
InitThink ==
    /\ keys = ThinkKeys
    /\ vectorDb \in BOOLEAN
    /\ \E md \in {NoNamespace, SelfLabel} :
        meta = [i \in ConvIds |-> IF i = CONVERSATION_ID THEN md ELSE NoNamespace]
    /\ log = [i \in ConvIds |-> <<>>]
    /\ markers = {}
    /\ clock = [now |-> 0, ticks |-> 0]
    /\ nextId = 0
    /\ pc = [p \in Tasks |-> "idle"]
    /\ loc = [p \in Tasks |-> NoLoc]
    /\ hist = NoHist
    /\ registry = [n \in ProcessorNames |-> {}]
    /\ inv = NoInvocation
    /\ mind = NoMind
\* The store loses few of the appends think starts: an append is lost when
\* its lookup or its write fails.
MaxLostAppends == 2
Appending ==
    LET q == Detached(1)
    IN  \/ pc[q] \in {"gc_meta", "gc_hydrate", "am_store"}
        \/ pc[q] = "resolved" /\ loc[q].conv.present
LostAppends ==
    Len(mind.generated) - Len(log[CONVERSATION_ID]) - (IF Appending THEN 1 ELSE 0)
FaultsAllowed == LostAppends <= MaxLostAppends
NextThink ==
    \/ GetStep(1) \/ Finish(1)
    \/ CallThink(1) \/ ThinkResolved(1) \/ ThContext(1) \/ ThLlm(1)
    \/ (GcFetchMeta(2) /\ FaultsAllowed') \/ GcHydrate(2)
    \/ AddMemoryResolved(2)
    \/ (AmStore(2) /\ FaultsAllowed') \/ Finish(2)
SpecThink == InitThink /\ [][NextThink]_vars

\* The thought loop with a caller that may stop it at any moment.
NextStop == NextThink \/ Stop
SpecStop == InitThink /\ [][NextStop]_vars

\* Enumeration: one caller creates and lists conversations while another
\* deletes them.
ListKeys == {<<"discord", "alice">>, <<"discord", "">>}
InitList == InitStore(ListKeys, ForeignMetas)
NextList ==
    \/ GetStep(1) \/ Finish(1) \/ Finish(2)
    \/ CallCreateConversation(1) \/ CcGetCollection(1) \/ CcModify(1)
    \/ CallListConversations(1) \/ LcList(1) \/ ListResolved(1)
    \/ CallDeleteConversation(2) \/ DcDelete(2)
SpecList == InitList /\ [][NextList]_vars

\* The processor pipeline: one invocation at a time on a fixed registry;
\* no store is involved.
InitProcess ==
    /\ keys = {}
    /\ vectorDb = FALSE
    /\ meta = [i \in ConvIds |-> NoNamespace]
    /\ log = [i \in ConvIds |-> <<>>]
    /\ markers = {}
    /\ clock = [now |-> 0, ticks |-> 0]
    /\ nextId = 0
    /\ pc = [p \in Tasks |-> "idle"]
    /\ loc = [p \in Tasks |-> NoLoc]
    /\ hist = NoHist
    /\ registry \in Registries
    /\ inv = NoInvocation
    /\ mind = NoMind
NextProcess ==
    CallCanHandle \/ CallProcess \/ AwaitContext \/ Classify \/ FinishProcess
SpecProcess == InitProcess /\ [][NextProcess]_vars

\* Delegation over the processor trees and over a registry with a cycle:
\* childA and childB name each other.  A chain is followed up to MaxChain
\* processors.
CyclicRegistry ==
    [n \in ProcessorNames |->
        CASE n = "master" -> {"childA"} [] n = "childA" -> {"childB"}
          [] OTHER -> {"childA"}]
InitDelegate ==
    /\ keys = {}
    /\ vectorDb = FALSE
    /\ meta = [i \in ConvIds |-> NoNamespace]
    /\ log = [i \in ConvIds |-> <<>>]
    /\ markers = {}
    /\ clock = [now |-> 0, ticks |-> 0]
    /\ nextId = 0
    /\ pc = [p \in Tasks |-> "idle"]
    /\ loc = [p \in Tasks |-> NoLoc]
    /\ hist = NoHist
    /\ registry \in Registries \cup {CyclicRegistry}
    /\ inv = NoInvocation
    /\ mind = NoMind
ClassifyWithinChain == Classify /\ Len(inv'.chain) <= MaxChain
NextDelegate ==
    CallProcess \/ AwaitContext \/ ClassifyWithinChain \/ FinishProcess
SpecDelegate == InitDelegate /\ [][NextDelegate]_vars

\* Every awaited call of an invocation settles and its continuation runs;
\* nothing obliges a caller to start an invocation.
SpecDelegateFair ==
    /\ SpecDelegate
    /\ WF_vars(AwaitContext) /\ WF_vars(ClassifyWithinChain)
    /\ WF_vars(FinishProcess)

(***************************************************************************)
(* Properties of the conversation manager.                                 *)
(***************************************************************************)
AtDone(p, op) == pc[p] = "done" /\ loc[p].op = op

\* Stored namespace metadata without a usable platform or platformId.
LacksKey(md, k) == k \notin DOMAIN md \/ md[k] = Undef \/ md[k] = Str("")
Incomplete(md) == LacksKey(md, "platform") \/ LacksKey(md, "platformId")

\* C1: whenever the namespace metadata of the requested id lacks platform
\* or platformId (missing or empty), getConversation is absent, no
\* Conversation object exists in the call, and no memory read was issued.
C1_IncompleteMetadataIsAbsent ==
    \A p \in Tasks :
        (pc[p] \in {"resolved", "done"}
           /\ loc[p].op \in {"getConversation", "getConversationByPlatformId",
                             "addMemory", "getMemories", "hasProcessed",
                             "markProcessed"}
           /\ vectorDb /\ Incomplete(meta[loc[p].cid]))
        => /\ loc[p].conv = Absent
           /\ ~Issued(loc[p], "getMemories")
           /\ (AtDone(p, "getConversation") => loc[p].ret = Return(Absent))

\* A getConversation that read a namespace holding content under an empty
\* platformId has returned.
C1_Witness ==
    \E p \in Tasks :
        /\ AtDone(p, "getConversation")
        /\ Issued(loc[p], "getCollection")
        /\ ~Faulted(loc[p], "getCollection")
        /\ loc[p].metaSeen = meta[loc[p].cid]
        /\ "platformId" \in DOMAIN meta[loc[p].cid]
        /\ meta[loc[p].cid]["platformId"] = Str("")
        /\ log[loc[p].cid] # <<>>
        /\ loc[p].ret = Return(Absent)

\* The items of a namespace that addMemory wrote.
Written(cid) == {i \in 1..Len(log[cid]) : log[cid][i].src.id # MemId(0)}

\* C2: what getMemoriesFromConversation returns holds, for every item that
\* a successful addMemory wrote, a memory with the content passed and the
\* timestamp of the Memory addMemory returned.
C2_RoundTrip ==
    \A p \in Tasks :
        (AtDone(p, "getMemories") /\ loc[p].ret.kind = "return")
        => \A i \in Written(loc[p].cid) :
             \E j \in 1..Len(loc[p].ret.val) :
                /\ loc[p].ret.val[j].content = log[loc[p].cid][i].src.content
                /\ loc[p].ret.val[j].timestamp = log[loc[p].cid][i].src.timestamp

\* The same for calls whose metadata carries no timestamp key of its own.
RoundTripWithoutTimestampKey ==
    \A p \in Tasks :
        (AtDone(p, "getMemories") /\ loc[p].ret.kind = "return")
        => \A i \in Written(loc[p].cid) :
             "timestamp" \notin DOMAIN log[loc[p].cid][i].src.metadata
             => \E j \in 1..Len(loc[p].ret.val) :
                  /\ loc[p].ret.val[j].content = log[loc[p].cid][i].src.content
                  /\ loc[p].ret.val[j].timestamp = log[loc[p].cid][i].src.timestamp

C4_SecondEnsureTakesGetPath ==
    \A p \in Tasks :
        (AtDone(p, "ensureConversation") /\ loc[p].faults = <<>>)
        => \A e \in hist.ensured :
             (e.name = loc[p].platformId /\ e.platform = loc[p].platform)
             => /\ loc[p].ret.kind = "return"
                /\ loc[p].ret.val.id = e.id
                /\ ~Issued(loc[p], "modify")

\* The same, for every non-empty name under a platform other than the
\* reserved one.
SecondEnsureTakesGetPathUnreserved ==
    \A p \in Tasks :
        (AtDone(p, "ensureConversation") /\ loc[p].faults = <<>>
           /\ loc[p].platformId # "" /\ loc[p].platform # "consciousness")
        => \A e \in hist.ensured :
             (e.name = loc[p].platformId /\ e.platform = loc[p].platform)
             => /\ loc[p].ret.kind = "return"
                /\ loc[p].ret.val.id = e.id
                /\ ~Issued(loc[p], "modify")

\* C7: in addMemory the Memory is in the in-memory Conversation before the
\* store write is issued; a failed write raises, leaves the Memory out of
\* the persisted log, and no later getConversation holds it: a
\* Conversation's log is the persisted one, which never holds a Memory
\* whose write failed.
C7_FailedWriteIsNotPersisted ==
    /\ \A c \in ConvIds : \A i \in 1..Len(log[c]) :
          log[c][i].src.id.n \notin hist.failed
    /\ \A p \in Tasks :
        LET l == loc[p]
        IN /\ pc[p] = "am_store"
              => /\ ~Issued(l, "storeInConversation")
                 /\ Len(l.conv.memories) > 0
                 /\ l.conv.memories[Len(l.conv.memories)] = l.memory
           /\ (AtDone(p, "addMemory") /\ Faulted(l, "storeInConversation"))
              => /\ l.ret.kind = "throw"
                 /\ l.memory.id.n \in hist.failed
                 /\ l.conv.memories[Len(l.conv.memories)] = l.memory
           /\ (AtDone(p, "getConversation") /\ l.ret.kind = "return"
                 /\ l.ret.val # Absent /\ ~Faulted(l, "getMemories"))
              => /\ Len(l.ret.val.memories) = Len(log[l.cid])
                 /\ \A i \in 1..Len(log[l.cid]) :
                      /\ l.ret.val.memories[i].content = log[l.cid][i].content
                      /\ l.ret.val.memories[i].metadata = log[l.cid][i].metadata

\* A getConversation has returned the conversation after an addMemory on
\* it failed at the store write.
C7_Witness ==
    \E p \in Tasks :
        /\ AtDone(p, "getConversation")
        /\ hist.failed # {}
        /\ loc[p].ret.kind = "return" /\ loc[p].ret.val # Absent
        /\ ~Faulted(loc[p], "getMemories")

\* C8: an addMemory whose conversation does not resolve (no namespace,
\* incomplete metadata, or a failed metadata fetch) raises not-found and
\* has issued no content append.
C8_UnresolvedAddMemoryWritesNothing ==
    \A p \in Tasks :
        (AtDone(p, "addMemory") /\ vectorDb
           /\ (Faulted(loc[p], "getCollection") \/ meta[loc[p].cid] = NoNamespace
               \/ Incomplete(meta[loc[p].cid])))
        => /\ loc[p].ret = Throw("not found")
           /\ ~Issued(loc[p], "storeInConversation")
           /\ loc[p].memory = NoMemory

\* An addMemory on a labelled namespace whose metadata fetch failed has
\* ended.
C8_Witness ==
    \E p \in Tasks :
        /\ AtDone(p, "addMemory")
        /\ Faulted(loc[p], "getCollection")
        /\ ~Incomplete(meta[loc[p].cid])
        /\ loc[p].ret = Throw("not found")

\* C9: a createConversation in which a store call failed raises; one that
\* returns a Conversation has issued the metadata write, no store call of
\* it failed, and the namespace carries the Conversation's label.
C9_CreateFailsHard ==
    \A p \in Tasks :
        (AtDone(p, "createConversation") /\ vectorDb)
        => LET l == loc[p]
           IN /\ l.faults # <<>> => l.ret.kind = "throw"
              /\ l.ret.kind = "return"
                 => /\ l.faults = <<>>
                    /\ l.issued = << <<"getCollection", l.ret.val.id>>,
                                     <<"modify", l.ret.val.id>> >>
                    /\ meta[l.ret.val.id]["platform"] = Str(l.platform)
                    /\ meta[l.ret.val.id]["platformId"] = Str(l.platformId)

\* A createConversation whose metadata write failed has ended.
C9_Witness ==
    \E p \in Tasks :
        /\ AtDone(p, "createConversation")
        /\ Faulted(loc[p], "modify")
        /\ loc[p].ret.kind = "throw"

\* C10: a getConversation whose metadata was valid and whose memory read
\* failed returns the Conversation of that metadata with an empty log.
C10_HydrationFailureIsSwallowed ==
    \A p \in Tasks :
        (AtDone(p, "getConversation") /\ Faulted(loc[p], "getMemories"))
        => LET l == loc[p]
               md == meta[l.cid]
           IN /\ ~Incomplete(md)
              /\ l.ret.kind = "return"
              /\ l.ret.val # Absent
              /\ Str(l.ret.val.platform) = md["platform"]
              /\ Str(l.ret.val.platformId) = md["platformId"]
              /\ l.ret.val.id = createDeterministicId(md["platform"].v, md["platformId"].v)
              /\ l.ret.val.memories = <<>>

\* The memory read of a getConversation failed on a namespace that holds
\* content.
C10_Witness ==
    \E p \in Tasks :
        /\ AtDone(p, "getConversation")
        /\ Faulted(loc[p], "getMemories")
        /\ log[loc[p].cid] # <<>>
        /\ loc[p].ret.kind = "return"

ReadOps == {"getConversation", "getConversationByPlatformId",
            "listConversations", "getMemories", "findSimilar", "hasProcessed"}
WriteOps == {"createConversation", "addMemory", "markProcessed",
             "deleteConversation"}

\* What a read operation hands back when it degrades: absent, an empty
\* list, or false.
Degraded(op, r) ==
    /\ r.kind = "return"
    /\ CASE op \in {"getConversation", "getConversationByPlatformId"} -> r.val = Absent
         [] op = "hasProcessed" -> r.val = FALSE
         [] OTHER -> r.val = <<>>

\* C11: without a store every read operation returns an absent, empty or
\* false result and every write operation raises.
C11_NoStoreReadsDegradeWritesThrow ==
    \A p \in Tasks :
        (pc[p] = "done" /\ ~vectorDb)
        => /\ loc[p].op \in ReadOps => Degraded(loc[p].op, loc[p].ret)
           /\ loc[p].op \in WriteOps => loc[p].ret.kind = "throw"

\* The conversation of an operation did not resolve.
Unresolved(p) ==
    /\ vectorDb
    /\ pc[p] = "done"
    /\ Issued(loc[p], "getCollection")
    /\ ~loc[p].conv.present

\* C12: on an id that does not resolve addMemory and markContentAsProcessed
\* raise not-found, and getConversation, getMemoriesFromConversation,
\* findSimilarMemoriesInConversation and hasProcessedContentInConversation
\* return absent, empty or false.
C12_UnresolvedWritesThrowReadsDegrade ==
    \A p \in Tasks :
        Unresolved(p)
        => /\ loc[p].op \in {"addMemory", "markProcessed"}
              => loc[p].ret = Throw("not found")
           /\ loc[p].op \in {"getConversation", "getMemories", "findSimilar",
                              "hasProcessed"}
              => Degraded(loc[p].op, loc[p].ret)

\* The ids of a list of memories are pairwise distinct.
DistinctIds(ms) ==
    \A i, j \in 1..Len(ms) : i # j => ms[i].id # ms[j].id

\* C13: the memories of a conversation read back by getConversation or
\* getMemoriesFromConversation have pairwise distinct ids.
C13_ReadBackIdsAreDistinct ==
    \A p \in Tasks :
        /\ (AtDone(p, "getMemories") /\ loc[p].ret.kind = "return")
           => DistinctIds(loc[p].ret.val)
        /\ (AtDone(p, "getConversation") /\ loc[p].ret.kind = "return"
              /\ loc[p].ret.val # Absent)
           => DistinctIds(loc[p].ret.val.memories)

IsPrefix(a, b) == Len(a) <= Len(b) /\ SubSeq(b, 1, Len(a)) = a

\* The step completes a deleteConversation of namespace c.
DeleteStep(c) ==
    \E p \in Tasks :
        /\ pc[p] = "dc_delete" /\ loc[p].cid = c
        /\ pc'[p] = "done" /\ loc'[p].ret.kind = "return"

\* C14: every step of an operation other than a deleteConversation of the
\* namespace leaves each persisted item in place, with its content and
\* metadata (hence its timestamp) and in the same order: the log only
\* grows at its end.
C14_LogIsAppendOnly ==
    [][\A c \in ConvIds : DeleteStep(c) \/ IsPrefix(log[c], log'[c])]_vars

\* createConversation has re-labelled a namespace that holds two items,
\* one of them written by addMemory.
C14_Witness ==
    \E c \in ConvIds :
        /\ Len(log[c]) >= 2
        /\ Written(c) # {}
        /\ \E p \in Tasks :
              /\ AtDone(p, "createConversation")
              /\ loc[p].ret.kind = "return" /\ loc[p].ret.val.id = c

\* C15: every item addMemory wrote carries the id of the returned Memory
\* as memoryId, the ISO form of its timestamp as timestamp, and platform
\* and platformId of the conversation, whatever the caller's metadata.
C15_StoredMetadataIsEnriched ==
    \A c \in ConvIds : \A i \in Written(c) :
        LET item == log[c][i]
        IN /\ item.metadata["memoryId"] = item.src.id
           /\ item.metadata["timestamp"] = ToISOString(item.src.timestamp)
           /\ item.metadata["platform"] = meta[c]["platform"]
           /\ item.metadata["platformId"] = meta[c]["platformId"]

\* The messages of what failed while a think call generated its thought:
\* the lookup of the self-conversation, the context provider, or the
\* inference call with its schema validation.
GenerationFailures(l) ==
    IF ~l.conv.present THEN {"TypeError"}
    ELSE IF Faulted(l, "getContext") THEN {"context"}
    ELSE IF Faulted(l, "validateLLMResponseSchema") THEN {"inference", "schema"}
    ELSE {}

\* C16: think never throws: it returns a Thought whose source is
\* "consciousness", and when the generation failed the Thought has type
\* "error" and carries the failure message in its metadata.
C16_ThinkIsInfallible ==
    \A p \in Tasks : AtDone(p, "think") =>
        /\ loc[p].ret.kind = "return"
        /\ loc[p].ret.val.source = "consciousness"
        /\ GenerationFailures(loc[p]) # {} =>
              /\ loc[p].ret.val.type = "error"
              /\ loc[p].ret.val.metadata.error \in GenerationFailures(loc[p])

\* A think call whose inference call failed has returned an error Thought
\* with the message.
C16_Witness ==
    \E p \in Tasks :
        /\ AtDone(p, "think")
        /\ Faulted(loc[p], "validateLLMResponseSchema")
        /\ loc[p].ret.kind = "return"
        /\ loc[p].ret.val.type = "error"
        /\ loc[p].ret.val.metadata.error = "schema"

\* C17: when the addMemory that think started for its thought fails, the
\* failure reaches a handler of think (the call is awaited inside its try
\* block), so it is caught and logged and never an unhandled rejection.
C17_AppendFailureIsCaught ==
    \A q \in Tasks :
        (/\ AtDone(q, "addMemory")
         /\ loc[q].cid = CONVERSATION_ID
         /\ loc[q].content \in {mind.generated[i] : i \in 1..Len(mind.generated)}
         /\ loc[q].ret.kind = "throw")
        => loc[q].awaited

\* C18: the recent-action buffer holds at most 10 entries, and they are,
\* in generation order, the contents of the last min(k, 10) thoughts
\* generated, k being the number of successful generations.
C18_BufferIsLastTen ==
    LET k == Len(mind.generated)
        n == IF k < 10 THEN k ELSE 10
    IN  /\ Len(mind.recentActions) <= 10
        /\ mind.recentActions = [i \in 1..n |-> mind.generated[k - n + i]]

\* An 11th thought was generated and returned: the first one is no longer
\* in the buffer, the second one is now its oldest entry.
C18_Witness ==
    /\ Len(mind.generated) = 11
    /\ \E p \in Tasks : AtDone(p, "think") /\ loc[p].ret.val.content = mind.generated[11]
    /\ mind.recentActions[1] = mind.generated[2]
    /\ \A i \in 1..Len(mind.recentActions) : mind.recentActions[i] # mind.generated[1]

\* C21: every Memory findSimilarMemoriesInConversation returns has the
\* queried id as conversationId and the platform and platformId of the
\* resolved conversation in its metadata, whatever the store's result
\* carried; the search goes to the queried namespace only, and only after
\* the conversation resolved.
C21_SimilarResultsCarryTheConversation ==
    \A p \in Tasks : loc[p].op = "findSimilar" =>
        /\ \A i \in 1..Len(loc[p].issued) : loc[p].issued[i][1] = "findSimilar" =>
              /\ loc[p].issued[i][2] = loc[p].cid
              /\ ~Incomplete(loc[p].metaSeen)
              /\ \E j \in 1..(i - 1) : loc[p].issued[j] = <<"getCollection", loc[p].cid>>
        /\ (pc[p] = "done" /\ loc[p].ret.kind = "return") =>
              \A i \in 1..Len(loc[p].ret.val) :
                  /\ loc[p].ret.val[i].conversationId = loc[p].cid
                  /\ loc[p].ret.val[i].metadata["platform"] = loc[p].metaSeen["platform"]
                  /\ loc[p].ret.val[i].metadata["platformId"] = loc[p].metaSeen["platformId"]

\* A search has returned an item that the store holds under another
\* platform and platformId.
C21_Witness ==
    \E p \in Tasks :
        /\ AtDone(p, "findSimilar") /\ loc[p].ret.kind = "return"
        /\ Len(loc[p].ret.val) >= 1
        /\ loc[p].ret.val[1].content = "old"
        /\ log[loc[p].cid][1].metadata["platform"] = Str("telegram")
        /\ loc[p].ret.val[1].metadata["platform"] = Str("discord")

\* C22: a markContentAsProcessed whose conversation did not resolve
\* returns false, raises nothing and issues no marker write; one that
\* returns true has had its marker write completed by the store.
C22_MarkOnUnresolvedIsFalse ==
    \A p \in Tasks : AtDone(p, "markProcessed") =>
        /\ (Issued(loc[p], "getCollection") /\ ~loc[p].conv.present) =>
              /\ loc[p].ret = Return(FALSE)
              /\ ~Issued(loc[p], "markContentAsProcessed")
        /\ loc[p].ret = Return(TRUE) =>
              /\ Issued(loc[p], "markContentAsProcessed")
              /\ ~Faulted(loc[p], "markContentAsProcessed")
              /\ <<loc[p].contentId, loc[p].cid>> \in markers

\* A markContentAsProcessed looked its conversation up, did not find it
\* and returned false.
C22_Witness ==
    \E p \in Tasks :
        /\ AtDone(p, "markProcessed")
        /\ Issued(loc[p], "getCollection")
        /\ ~loc[p].conv.present
        /\ loc[p].ret = Return(FALSE)
        /\ <<loc[p].contentId, loc[p].cid>> \notin markers

\* A task in the middle of an operation: an external call of it is
\* outstanding or about to be issued.
Running(p) == pc[p] \notin {"idle", "done"}

\* C27: an operation issues its external calls one after the other and
\* returns only when none is outstanding: while the store calls of an
\* addMemory that think started are under way, think has not returned.
C27_OperationsAwaitTheirCalls ==
    \A q \in Tasks :
        (Running(q) /\ loc[q].op = "addMemory" /\ loc[q].cid = CONVERSATION_ID
            /\ loc[q].content \in {mind.generated[i] : i \in 1..Len(mind.generated)})
        => \E p \in Tasks \ {q} : loc[p].op = "think" /\ Running(p)

\* The Conversation v is the one the store holds under id c: identity from
\* the namespace metadata, one memory per item of the log, in log order.
ReflectsStore(v, c) ==
    /\ v.present
    /\ v.id = c
    /\ Str(v.platform) = meta[c]["platform"]
    /\ Str(v.platformId) = meta[c]["platformId"]
    /\ Len(v.memories) = Len(log[c])
    /\ \A i \in 1..Len(log[c]) : v.memories[i].content = log[c][i].content

\* C28 as stated: every getConversation returns what the store holds when
\* it is called: the Conversation with all memories appended before, or
\* absent once the namespace is deleted or not labelled.
C28_ReadsReflectTheStore ==
    \A p \in Tasks : (AtDone(p, "getConversation") /\ vectorDb) =>
        /\ loc[p].ret.kind = "return"
        /\ IF Incomplete(meta[loc[p].cid])
           THEN loc[p].ret.val = Absent
           ELSE ReflectsStore(loc[p].ret.val, loc[p].cid)

\* C28: a getConversation whose two store reads succeed returns what the
\* store holds when it is called, whatever earlier calls returned; one
\* whose metadata fetch fails returns absent, and one whose memory read
\* fails returns the Conversation with an empty log.
C28_ReadsReflectTheStoreUnlessTheyFail ==
    \A p \in Tasks : (AtDone(p, "getConversation") /\ vectorDb) =>
        /\ loc[p].ret.kind = "return"
        /\ CASE Faulted(loc[p], "getCollection") \/ Incomplete(meta[loc[p].cid]) ->
                    loc[p].ret.val = Absent
             [] Faulted(loc[p], "getMemories") ->
                    /\ loc[p].ret.val.present
                    /\ loc[p].ret.val.id = loc[p].cid
                    /\ loc[p].ret.val.memories = <<>>
             [] OTHER -> ReflectsStore(loc[p].ret.val, loc[p].cid)

\* A getConversation without faults has returned two memories, one of
\* them written by an earlier addMemory call.
C28_Witness ==
    \E p \in Tasks :
        /\ AtDone(p, "getConversation")
        /\ loc[p].faults = <<>>
        /\ loc[p].ret.kind = "return"
        /\ loc[p].ret.val.present
        /\ Len(loc[p].ret.val.memories) = 2
        /\ Written(loc[p].cid) # {}

\* When the memory with this content was written, among the memories ms.
StampOf(ms, content) ==
    LET i == CHOOSE i \in 1..Len(ms) : ms[i].content = content
    IN  ms[i].timestamp

\* C29: the recent memories generateThought uses are at most 10, latest
\* first, all of the self-conversation, and they are its 10 latest
\* memories when the conversation holds 10 or more.
C29_RecentMemoriesAreTheLastTen ==
    \A p \in Tasks :
        (loc[p].op = "think" /\ pc[p] \in {"th_context", "th_llm", "done"}
            /\ loc[p].conv.present)
        => LET r == loc[p].recent
               ms == loc[p].conv.memories
           IN /\ Len(r) <= 10
              /\ \A i \in 1..Len(r) : r[i].conversationId = CONVERSATION_ID
              /\ \A i, j \in 1..Len(r) :
                    i < j => StampOf(ms, r[i].content) >= StampOf(ms, r[j].content)
              /\ Len(ms) >= 10 =>
                    /\ Len(r) = 10
                    /\ \A i \in 1..10 : r[i].content = ms[Len(ms) + 1 - i].content

\* C31: a getConversation of the id a successful createConversation
\* returned, issued afterwards, returns a Conversation with the same id,
\* platform, platformId, name, description, participants and createdAt.
C31_CreateThenGetRoundTrips ==
    \A p, q \in Tasks :
        (/\ AtDone(p, "createConversation") /\ loc[p].ret.kind = "return"
         /\ loc[p].platform # "" /\ loc[p].platformId # ""
         /\ AtDone(q, "getConversation") /\ loc[q].cid = loc[p].ret.val.id
         /\ Issued(loc[q], "getCollection") /\ loc[q].faults = <<>>)
        => LET made == loc[p].ret.val
               got == loc[q].ret.val
           IN /\ got.present
              /\ got.id = made.id
              /\ got.platform = made.platform
              /\ got.platformId = made.platformId
              /\ got.name = made.name
              /\ got.participants = made.participants
              /\ got.createdAt = made.createdAt
              /\ got.description = made.description

\* The fetch of a visited id saw complete metadata.
Resolves(v) == ~Incomplete(v.md)

SentinelId == createDeterministicId("consciousness", "main")

\* C20: every store call of a getConversationByPlatformId is for the id of
\* (consciousness, main) when the platform is the reserved one, whatever
\* the platformId, and for the id of the pair as given otherwise; the
\* Conversation it returns has that id.
C20_ReservedPlatformLooksUpSentinel ==
    \A p \in Tasks :
        loc[p].op = "getConversationByPlatformId"
        => LET l == loc[p]
               id == IF l.platform = "consciousness" THEN SentinelId
                     ELSE createDeterministicId(l.platform, l.platformId)
           IN /\ \A i \in 1..Len(l.issued) : l.issued[i][2] = id
              /\ (pc[p] = "done" /\ l.ret.val # Absent) => l.ret.val.id = id

\* A lookup of local id "alice" under the reserved platform has returned
\* the Conversation of (consciousness, main).
C20_Witness ==
    \E p \in Tasks :
        /\ AtDone(p, "getConversationByPlatformId")
        /\ loc[p].platform = "consciousness" /\ loc[p].platformId = "alice"
        /\ loc[p].ret.val # Absent
        /\ loc[p].ret.val.id = SentinelId

(***************************************************************************)
(* Properties of the processor pipeline.                                   *)
(***************************************************************************)
\* C5: an invocation in which the inference call or the schema validation
\* failed, in the processor first invoked or in a child, ends with a
\* returned ProcessedResult; an invocation raises only when the ambient
\* context could not be obtained.
C5_ProcessingFailureIsData ==
    inv.pc = "done"
    => /\ inv.llmFailed
          => /\ inv.ret.kind = "return"
             /\ inv.ret.val.content = inv.content
             /\ inv.ret.val.by = Current
       /\ inv.ret.kind = "throw" => inv.contextFailed /\ ~inv.llmFailed

\* The inference call of a child processor failed and the invocation ended.
C5_Witness ==
    /\ inv.pc = "done"
    /\ inv.llmFailed
    /\ Len(inv.chain) = 3
    /\ inv.ret.kind = "return"

\* C6: the processor that classified at position i of the chain passed
\* control to a child exactly when delegateToProcessor was a non-empty
\* name, a child was registered under it and the content is below the
\* child's limit; the child entered is the one named, and the processor
\* that did not delegate is the one that built the result.
C6_DelegatesIffChildCanHandle ==
    \A i \in 1..Len(inv.trail) :
        LET n == inv.trail[i].name
            d == inv.trail[i].result.classification.delegateToProcessor
            named == d \notin {Undef, [t |-> "null"], Str("")}
            wanted == /\ named
                      /\ d.v \in registry[n]
                      /\ inv.content.str.len < ContentLimit
        IN /\ n = inv.chain[i]
           /\ (i < Len(inv.chain)) <=> wanted
           /\ i < Len(inv.chain) => inv.chain[i + 1] = d.v
           /\ ~wanted => /\ i = Len(inv.chain) /\ inv.pc = "done"
                         /\ inv.ret.kind = "return" /\ inv.ret.val.by = n

\* A classification named a registered child that cannot handle the
\* content, and the parent finalized.
C6_Witness ==
    /\ inv.pc = "done"
    /\ Len(inv.trail) = 1
    /\ inv.trail[1].result.classification.delegateToProcessor = Str("childA")
    /\ "childA" \in registry["master"]
    /\ inv.content.str.len >= ContentLimit
    /\ inv.ret.kind = "return" /\ inv.ret.val.by = "master"

\* C23: the result of an invocation whose inference call or schema
\* validation failed echoes the input content, has sentiment "neutral",
\* no topics, no entities, the first 100 characters of the content's
\* string form as summary, no suggested outputs, and alreadyProcessed
\* false.
C23_DegradedResultIsNeutral ==
    (inv.pc = "done" /\ inv.llmFailed) =>
        LET r == inv.ret.val
            str == inv.content.str
        IN /\ r.content = inv.content
           /\ r.enrichedContext.sentiment = "neutral"
           /\ r.enrichedContext.topics = <<>>
           /\ r.enrichedContext.entities = <<>>
           /\ r.enrichedContext.summary.base = str.base
           /\ r.enrichedContext.summary.len = (IF str.len < 100 THEN str.len ELSE 100)
           /\ r.suggestedOutputs = <<>>
           /\ r.alreadyProcessed = FALSE

\* The inference call failed on a content longer than 100 characters and
\* the invocation has ended.
C23_Witness ==
    /\ inv.pc = "done"
    /\ inv.llmFailed
    /\ inv.content.str.len > 100
    /\ inv.ret.kind = "return"
    /\ inv.ret.val.enrichedContext.summary.len = 100

\* C24: the result of an invocation that classified and did not delegate
\* echoes the input content, has the classification's contentType in its
\* metadata, the backend's suggestedOutputs and updateTasks as they came,
\* and alreadyProcessed false.
C24_FinalizedResultEchoesTheBackend ==
    (inv.pc = "done" /\ ~inv.llmFailed /\ ~inv.contextFailed) =>
        LET r == inv.ret.val
            b == inv.trail[Len(inv.trail)].result
        IN /\ inv.ret.kind = "return"
           /\ r.content = inv.content
           /\ r.metadata.contentType = b.classification.contentType
           /\ r.suggestedOutputs = b.suggestedOutputs
           /\ r.updateTasks.v = b.updateTasks
           /\ r.alreadyProcessed = FALSE

\* The master processor classified, did not delegate, and returned two
\* suggested outputs and two tasks.
C24_Witness ==
    /\ inv.pc = "done"
    /\ Len(inv.trail) = 1
    /\ inv.ret.kind = "return"
    /\ inv.ret.val.metadata.contentType = "greeting"
    /\ Len(inv.ret.val.suggestedOutputs) = 2
    /\ inv.ret.val.suggestedOutputs[1].name = "discord_reply"
    /\ Len(inv.ret.val.updateTasks.v) = 2

\* C25: every child of a delegation chain receives the content and the
\* ioContext its parent received, and an otherContext that is the parent's
\* followed by the parent's summary; so every processor of the chain sees
\* the caller's content and ioContext, and the caller's otherContext as a
\* prefix of its own.
C25_DelegationGrowsTheContext ==
    /\ Len(inv.frames) = Len(inv.chain)
    /\ Len(inv.frames) >= 1 =>
          inv.frames[1] = [content |-> inv.content, otherContext |-> inv.otherContext,
                           ioContext |-> inv.ioContext]
    /\ \A i \in 2..Len(inv.frames) :
          /\ inv.frames[i].content = inv.content
          /\ inv.frames[i].ioContext = inv.ioContext
          /\ inv.frames[i].otherContext =
                inv.frames[i - 1].otherContext
                    \o <<inv.trail[i - 1].result.enrichment.summary>>
          /\ IsPrefix(inv.otherContext, inv.frames[i].otherContext)
          /\ Len(inv.frames[i].otherContext) > Len(inv.frames[i - 1].otherContext)

\* A chain of two delegations from a caller that passed a context and
\* output handlers.
C25_Witness ==
    /\ Len(inv.frames) = 3
    /\ inv.otherContext # <<>>
    /\ inv.ioContext # Undef
    /\ Len(inv.frames[3].otherContext) = 3

\* What the processor named n did during the invocation, in order.
PhasesOf(n) ==
    LET mine == SelectSeq(inv.phases, LAMBDA e : e[1] = n)
    IN  [i \in 1..Len(mine) |-> mine[i][2]]

\* C26: in a finished invocation every processor visited went through
\* Received and Classifying (one inference call, completed before the
\* decision) and then either delegated or finalized, never both; the
\* invocation ended Done, or Failed with the degraded result.
C26_PhasesFollowTheStateMachine ==
    inv.pc = "done" =>
        /\ \A i \in 1..Len(inv.chain) :
              PhasesOf(inv.chain[i]) \in
                  IF i < Len(inv.chain)
                  THEN { <<"Received", "Classifying", "Delegating">> }
                  ELSE { <<"Received", "Classifying", "Finalizing", "Done">>,
                         <<"Received", "Classifying", "Failed">> }
        /\ inv.ret.kind = "return"
        /\ inv.phases[Len(inv.phases)][2] = "Failed" =>
              /\ inv.llmFailed
              /\ inv.ret.val.enrichedContext.sentiment = "neutral"

\* C30: canHandle answers true exactly when the string form of the
\* content is shorter than the processor's content limit, so a content as
\* long as the limit is not handled; the call changes nothing else.
C30_CanHandleIsBelowTheLimit ==
    [][ (inv'.asked # Undef /\ inv'.asked # inv.asked) =>
          /\ inv'.asked.answer = (inv'.asked.content.str.len < ContentLimit)
          /\ inv'.asked.content.str.len = ContentLimit => ~inv'.asked.answer
          /\ UNCHANGED <<managerVars, consciousnessVars, registry>>
          /\ [inv' EXCEPT !.asked = Undef] = NoInvocation ]_vars

\* canHandle has refused an object whose serialization is exactly as long
\* as the limit.
C30_Witness ==
    /\ inv.asked # Undef
    /\ inv.asked.content.kind = "object"
    /\ inv.asked.content.str.len = ContentLimit
    /\ inv.asked.answer = FALSE

\* C32: the metadata write of an ensureConversation never changes the
\* metadata of a namespace that holds a conversation (platform and
\* platformId present), whatever the lookup's store read did and however
\* two ensureConversation calls interleave.
C32_EnsureNeverOverwrites ==
    [][ \A p \in Tasks :
          (/\ loc[p].op = "ensureConversation"
           /\ pc[p] = "cc_modify" /\ pc'[p] = "done"
           /\ ~Incomplete(meta[loc[p].cid]))
          => meta' = meta ]_vars

\* C33: a finished process() invocation has returned a ProcessedResult,
\* never raised, also when the ambient-context provider failed before the
\* inference call; the result is then the neutral one.
C33_ProcessNeverRaises ==
    inv.pc = "done" =>
        /\ inv.ret.kind = "return"
        /\ inv.contextFailed => inv.ret.val.enrichedContext.sentiment = "neutral"

\* The longest path from processor n down its registry, in delegations.
RECURSIVE Depth(_, _)
Depth(reg, n) ==
    IF reg[n] = {} THEN 0
    ELSE LET below == {Depth(reg, c) : c \in reg[n]}
         IN  1 + CHOOSE d \in below : \A e \in below : e <= d

\* Inference calls the invocation has made.
InferenceCalls ==
    Cardinality({i \in 1..Len(inv.phases) : inv.phases[i][2] = "Classifying"})

\* The invocation is under way; it has ended Done or Failed.
Started == inv.pc \in {"context", "classifying"}
Ended ==
    /\ inv.pc = "done"
    /\ inv.phases[Len(inv.phases)][2] \in {"Done", "Failed"}

\* On a tree an invocation makes at most depth+1 inference calls.
TreesEndWithinDepth ==
    registry \in Registries => InferenceCalls <= Depth(registry, "master") + 1

\* An invocation ends only where a processor did not delegate: its
\* inference call failed, or its answer named no registered child that can
\* handle the content.  Members of a cycle that keep naming the next
\* member never end it.
EndsWhereNotDelegated ==
    Ended =>
        \/ inv.llmFailed
        \/ ~ShouldDelegate(Current, inv.trail[Len(inv.trail)].result, Frame.content)

\* On a tree every invocation comes to an end, by a result or by an error
\* raised.
TreesReturnOrRaise == (registry \in Registries /\ Started) ~> (inv.pc = "done")

\* C34: delegation has no depth limit and no cycle detection.  On a finite
\* tree every invocation ends Done or Failed after at most depth+1
\* inference calls; on a cycle an invocation whose processors keep
\* delegating never ends.
C34_DelegationEndsOnTreesOnly ==
    /\ (registry \in Registries /\ Started) ~> Ended
    /\ []TreesEndWithinDepth
    /\ []EndsWhereNotDelegated

\* C35: with a store, two addMemory calls on one existing conversation,
\* neither of which met a failing metadata fetch or a failing append, both
\* return, each the Memory with its own content, and the persisted log
\* holds one item for each of the two Memories, in either order.
C35_ConcurrentAppendsBothPersist ==
    \A p, q \in Tasks :
        (/\ p # q /\ vectorDb
         /\ AtDone(p, "addMemory") /\ AtDone(q, "addMemory")
         /\ loc[p].cid = loc[q].cid
         /\ ~Incomplete(meta[loc[p].cid])
         /\ \A t \in {p, q} : /\ ~Faulted(loc[t], "getCollection")
                              /\ ~Faulted(loc[t], "storeInConversation"))
        => /\ \A t \in {p, q} : /\ loc[t].ret.kind = "return"
                                /\ loc[t].ret.val.content = loc[t].content
                                /\ loc[t].ret.val.conversationId = loc[t].cid
           /\ loc[p].ret.val.id # loc[q].ret.val.id
           /\ \E i, j \in Written(loc[p].cid) :
                /\ i # j
                /\ log[loc[p].cid][i].src = loc[p].ret.val
                /\ log[loc[p].cid][i].content = loc[p].content
                /\ log[loc[p].cid][j].src = loc[q].ret.val
                /\ log[loc[p].cid][j].content = loc[q].content
           /\ \A t \in {p, q} :
                Cardinality({i \in Written(loc[t].cid) :
                                log[loc[t].cid][i].src = loc[t].ret.val}) = 1

\* Both calls have returned, and the Memory created second was persisted
\* first: the two calls overlapped.
C35_Witness ==
    /\ AtDone(1, "addMemory") /\ AtDone(2, "addMemory")
    /\ loc[1].ret.kind = "return" /\ loc[2].ret.kind = "return"
    /\ loc[1].faults = <<>> /\ loc[2].faults = <<>>
    /\ Len(log[loc[1].cid]) = 2
    /\ log[loc[1].cid][1].src.id = MemId(2)
    /\ log[loc[1].cid][2].src.id = MemId(1)

\* C36: however addMemory and deleteConversation interleave, no namespace
\* without valid platform and platformId metadata (a deleted one is such)
\* holds an item that addMemory wrote.
C36_NoWriteIntoADeletedNamespace ==
    \A cid \in ConvIds : Written(cid) # {} => ~Incomplete(meta[cid])

\* The store calls that read.
ReadCalls == {"getCollection", "getMemories", "findSimilar",
              "listConversations", "hasProcessedContent"}

\* C37: every step of a read operation, in success and in failure, leaves
\* namespace metadata, content and markers as they were, and the store
\* calls the operation has issued are read calls only.
C37_ReadsLeaveTheStoreAlone ==
    [][ \A p \in Tasks :
          (loc'[p].op \in ReadOps /\ (pc'[p] # pc[p] \/ loc'[p] # loc[p]))
          => /\ UNCHANGED <<meta, log, markers>>
             /\ \A i \in 1..Len(loc'[p].issued) :
                   loc'[p].issued[i][1] \in ReadCalls ]_vars

\* A marker query has answered true over a conversation that holds
\* items and a marker.
C37_Witness ==
    /\ AtDone(1, "hasProcessed")
    /\ loc[1].ret = Return(TRUE)
    /\ Issued(loc[1], "hasProcessedContent")
    /\ log[loc[1].cid] # <<>>
    /\ <<loc[1].contentId, loc[1].cid>> \in markers

\* C38: the recent-action buffer changes, and an addMemory starts, only in
\* a step in which a think call returns a generated Thought, so a think
\* whose generation fails does neither; a think whose self-conversation
\* did not resolve returns an error Thought having called neither the
\* context provider nor the inference backend; stop() leaves the buffer,
\* the store and every call under way as they are, and a second stop()
\* changes nothing.
C38_FailedThinkAndStopChangeNothing ==
    [][ LET Succeeds(p) ==
                /\ pc[p] # "done" /\ pc'[p] = "done"
                /\ loc'[p].op = "think"
                /\ loc'[p].ret.kind = "return"
                /\ loc'[p].ret.val.type = "internal_thought"
        IN  /\ mind'.recentActions # mind.recentActions
                  => \E p \in Tasks : Succeeds(p)
            /\ \A q \in Tasks :
                  (loc[q].op # "addMemory" /\ loc'[q].op = "addMemory")
                  => \E p \in Tasks : Succeeds(p)
            /\ \A p \in Tasks :
                  (loc'[p].op = "think" /\ pc'[p] = "done" /\ ~loc'[p].conv.present)
                  => /\ loc'[p].ret.kind = "return"
                     /\ loc'[p].ret.val.type = "error"
                     /\ ~Issued(loc'[p], "getContext")
                     /\ ~Issued(loc'[p], "validateLLMResponseSchema")
            /\ mind'.stopped # mind.stopped
                  => /\ mind'.recentActions = mind.recentActions
                     /\ UNCHANGED <<meta, log, markers, pc, loc>>
                     /\ Stopped(mind') = mind' ]_vars

\* After thoughts were generated and stop() was called, a think call found
\* the self-conversation unresolved and returned an error Thought.
C38_Witness ==
    /\ AtDone(1, "think")
    /\ ~loc[1].conv.present
    /\ loc[1].ret.kind = "return" /\ loc[1].ret.val.type = "error"
    /\ mind.recentActions # <<>>
    /\ mind.stopped
    /\ pc[Detached(1)] = "idle"

=============================================================================
